---------------------------- MODULE Spec2Model ----------------------------
(***************************************************************************)
(* A model of the poll-based HTTP/1.x file server of COMP4981Assignment1:  *)
(* the request parser and response builder (http.c), the path resolver     *)
(* (path.c) and the per-client state machine and event loop (server.c).    *)
(*                                                                         *)
(* Representation.  A C string or byte buffer is a sequence of symbols.    *)
(* Request bytes and path characters are one-character strings, because    *)
(* the parser and the resolver inspect them one by one.  A response buffer *)
(* holds one symbol per formatted field (a header line, a fragment of the  *)
(* generated error page) or per file byte; every length and sent-counter   *)
(* of the model counts symbols, so send() offsets and Content-Length are   *)
(* in the same unit.  The byte 0x01 is written "^A" and 0x7f "^?".         *)
(***************************************************************************)
EXTENDS Integers, Sequences, FiniteSets, TLC

VARIABLES
    clients,    \* client_t clients[0..MAX_CLIENTS]            (server.c:505)
    pfds,       \* struct pollfd pfds[0..MAX_CLIENTS]          (server.c:504)
    ofiles,     \* the kernel's open regular files, by descriptor
    g_stop,     \* the shutdown flag                           (server.c:69)
    pc,         \* "loop": in the event loop; "stopped": run_server returned
    listening,  \* the listening socket is open                (server.c:497)
    exit_status,\* what main returned, -1 while it runs        (server.c:611)
    conn,       \* the TCP connections, seen from the network
    t_in,       \* input of a direct call of a pure function
    t_out       \* its result

vars == <<clients, pfds, ofiles, g_stop, pc, listening, exit_status, conn, t_in, t_out>>

-----------------------------------------------------------------------------
(* Program constants *)

PATH_MAX == 4096
LINE_MAX_LEN == 2048
METHOD_WIDTH == 15
TARGET_WIDTH == 4095
VERSION_WIDTH == 15
MAX_RESP_HEADER == 2048
MAX_ERROR_BODY == 512
PORT_WIDTH == 16
BIND_IP_WIDTH == 64
BACKLOG == 128
PORT_LIMIT == 65535
MAX_HEADER_BYTES == 16384
DEFAULT_HEADER_SIZE == 8192

(* Bounds of the model *)

\* number of client slots, clients[1..MAX_CLIENTS] (1024 in server.c:23)
MAX_CLIENTS == 2
\* cfg->max_header_size, the header budget (8192 in server.c:109)
MaxHeaderSize == 34
\* FILE_CHUNK, the streaming chunk size (8192 in server.c:31)
FILE_CHUNK == 2
\* connections the network opens during a run
NumConns == 3
\* TCP segments a client's request is delivered in
MaxSegments == 2
\* most symbols one writability notification lets through
MaxBurst == 2
\* longest target given to a direct resolve_path call
MaxTargetLen == 4
\* most command-line arguments after the program name
MaxArgs == 3
\* largest header buffer tried when the header build is made to fail
MaxSmallCap == 9

-----------------------------------------------------------------------------
(* Characters and strings *)

CR == "\r"
LF == "\n"
SP == " "
CRLF == <<CR, LF>>

UpperCase == <<"A","B","C","D","E","F","G","H","I","J","K","L","M",
               "N","O","P","Q","R","S","T","U","V","W","X","Y","Z">>
LowerCase == <<"a","b","c","d","e","f","g","h","i","j","k","l","m",
               "n","o","p","q","r","s","t","u","v","w","x","y","z">>

tolower(ch) ==
    IF \E k \in 1..26 : UpperCase[k] = ch
    THEN LowerCase[CHOOSE k \in 1..26 : UpperCase[k] = ch]
    ELSE ch

\* strcasecmp(a, b) == 0
strcasecmp_eq(a, b) ==
    /\ Len(a) = Len(b)
    /\ \A k \in 1..Len(a) : tolower(a[k]) = tolower(b[k])

\* isspace() in the C locale, over the symbols of the model
isspace(ch) == ch \in {" ", "\t", "\n", "\r", "\f"}

\* iscntrl() in the C locale, over the symbols of the model
iscntrl(ch) == ch \in {"\t", "\n", "\r", "\f", "^A", "^?"}

\* strstr(s, pat) != NULL
strstr_found(s, pat) ==
    \E k \in 1..(Len(s) - Len(pat) + 1) : SubSeq(s, k, k + Len(pat) - 1) = pat

\* strncmp(s, pre, Len(pre)) == 0
has_prefix(s, pre) ==
    /\ Len(s) >= Len(pre)
    /\ SubSeq(s, 1, Len(pre)) = pre

\* strcmp(s + strlen(s) - Len(suf), suf) == 0, for strlen(s) >= Len(suf)
has_suffix(s, suf) ==
    /\ Len(s) >= Len(suf)
    /\ SubSeq(s, Len(s) - Len(suf) + 1, Len(s)) = suf

Min(a, b) == IF a <= b THEN a ELSE b

S_GET == <<"G","E","T">>
S_HEAD == <<"H","E","A","D">>
S_HTTP11 == <<"H","T","T","P","/","1",".","1">>
S_HTTP10 == <<"H","T","T","P","/","1",".","0">>
S_INDEX_HTML == <<"i","n","d","e","x",".","h","t","m","l">>

-----------------------------------------------------------------------------
(* http.c: the request parser *)

\* The offset of the first "\r\n" of raw, or -1.
find_request_line_end(raw) ==
    IF \E j \in 1..(Len(raw) - 1) : raw[j] = CR /\ raw[j + 1] = LF
    THEN (CHOOSE j \in 1..(Len(raw) - 1) :
             /\ raw[j] = CR /\ raw[j + 1] = LF
             /\ \A r \in 1..(j - 1) : ~(raw[r] = CR /\ raw[r + 1] = LF)) - 1
    ELSE -1

\* sscanf: the first position at or after p that holds no white space.
scan_skip(s, p) ==
    CHOOSE q \in p..(Len(s) + 1) :
        /\ (q = Len(s) + 1 \/ ~isspace(s[q]))
        /\ \A r \in p..(q - 1) : isspace(s[r])

\* sscanf "%<w>s": the position after the token that starts at p.
scan_token_end(s, p, w) ==
    CHOOSE q \in p..(Len(s) + 1) :
        /\ (q = Len(s) + 1 \/ isspace(s[q]) \/ q - p = w)
        /\ \A r \in p..(q - 1) : ~isspace(s[r]) /\ r - p < w

\* sscanf(s + p, "%<w1>s %<w2>s ..."): the tokens converted, in order; the
\* scan stops at the first directive that finds the input exhausted.
RECURSIVE scan_tokens(_, _, _)
scan_token_at(s, q, e, widths) ==
    IF e = q THEN <<>>
    ELSE <<SubSeq(s, q, e - 1)>> \o scan_tokens(s, e, Tail(widths))
scan_token_from(s, q, widths) ==
    scan_token_at(s, q, scan_token_end(s, q, Head(widths)), widths)
scan_tokens(s, p, widths) ==
    IF widths = <<>> THEN <<>> ELSE scan_token_from(s, scan_skip(s, p), widths)

\* sscanf(line, "%15s %4095s %15s", method, target, version): its return
\* value is the number of tokens.
scan_request_line(line) ==
    scan_tokens(line, 1, <<METHOD_WIDTH, TARGET_WIDTH, VERSION_WIDTH>>)

\* strncpy(out->target, target, PATH_MAX - 1)
copy_target(target) == SubSeq(target, 1, Min(Len(target), PATH_MAX - 1))

BadRequest == [rc |-> 400, method |-> "NONE", target |-> <<>>]

\* parse_http_request from the sscanf on: tk are the tokens converted.
parse_request_tokens(tk) ==
    IF Len(tk) # 3 THEN BadRequest
    ELSE IF tk[3] # S_HTTP11 /\ tk[3] # S_HTTP10 THEN BadRequest
    ELSE IF tk[2][1] # "/" THEN BadRequest
    ELSE IF \E k \in 1..Len(tk[2]) : iscntrl(tk[2][k]) THEN BadRequest
    ELSE IF strcasecmp_eq(tk[1], S_GET)
    THEN [rc |-> 0, method |-> "HTTP_METHOD_GET", target |-> copy_target(tk[2])]
    ELSE IF strcasecmp_eq(tk[1], S_HEAD)
    THEN [rc |-> 0, method |-> "HTTP_METHOD_HEAD", target |-> copy_target(tk[2])]
    ELSE [rc |-> 405, method |-> "HTTP_METHOD_UNSUPPORTED",
          target |-> copy_target(tk[2])]

\* parse_http_request once the first line's end is known.
parse_request_line(raw, line_end) ==
    IF line_end <= 0 \/ line_end >= LINE_MAX_LEN THEN BadRequest
    ELSE parse_request_tokens(scan_request_line(SubSeq(raw, 1, line_end)))

\* parse_http_request(raw, raw_len, out): rc is the return value, method and
\* target are *out ("NONE": left unset).
parse_http_request(raw) ==
    IF Len(raw) = 0 THEN BadRequest
    ELSE parse_request_line(raw, find_request_line_end(raw))

-----------------------------------------------------------------------------
(* http.c: the response builder *)

http_reason_phrase(status_code) ==
    CASE status_code = 200 -> "OK"
      [] status_code = 400 -> "Bad Request"
      [] status_code = 403 -> "Forbidden"
      [] status_code = 404 -> "Not Found"
      [] status_code = 405 -> "Method Not Allowed"
      [] OTHER -> "Internal Server Error"

\* strrchr(path, '.'): the suffix of path from its last '.', or <<>>.
last_dot_suffix(path) ==
    IF \E k \in 1..Len(path) : path[k] = "."
    THEN SubSeq(path,
                CHOOSE k \in 1..Len(path) :
                    path[k] = "." /\ \A r \in (k + 1)..Len(path) : path[r] # ".",
                Len(path))
    ELSE <<>>

\* guess_mime_type after strrchr: dot is the suffix from the last '.'.
mime_of_suffix(dot) ==
    IF dot = <<>> THEN "application/octet-stream"
    ELSE IF strcasecmp_eq(dot, <<".","h","t","m","l">>)
            \/ strcasecmp_eq(dot, <<".","h","t","m">>)
    THEN "text/html; charset=utf-8"
    ELSE IF strcasecmp_eq(dot, <<".","t","x","t">>) THEN "text/plain; charset=utf-8"
    ELSE IF strcasecmp_eq(dot, <<".","c","s","s">>) THEN "text/css; charset=utf-8"
    ELSE IF strcasecmp_eq(dot, <<".","j","s">>)
    THEN "application/javascript; charset=utf-8"
    ELSE IF strcasecmp_eq(dot, <<".","j","s","o","n">>)
    THEN "application/json; charset=utf-8"
    ELSE IF strcasecmp_eq(dot, <<".","j","p","g">>)
            \/ strcasecmp_eq(dot, <<".","j","p","e","g">>)
    THEN "image/jpeg"
    ELSE IF strcasecmp_eq(dot, <<".","p","n","g">>) THEN "image/png"
    ELSE IF strcasecmp_eq(dot, <<".","g","i","f">>) THEN "image/gif"
    ELSE IF strcasecmp_eq(dot, <<".","s","v","g">>) THEN "image/svg+xml"
    ELSE "application/octet-stream"

guess_mime_type(path) == mime_of_suffix(last_dot_suffix(path))

\* format_http_date: the clock is outside the model; one fixed instant.
format_http_date == "Thu, 01 Jan 1970 00:00:00 GMT"

\* The fields snprintf formats, in order.
header_fields(status_code, content_type, content_length, include_allow_header) ==
    <<"HTTP/1.1 " \o ToString(status_code) \o " "
          \o http_reason_phrase(status_code) \o "\r\n",
      "Date: " \o format_http_date \o "\r\n",
      "Server: comp4981-httpd/1.0\r\n",
      "Connection: close\r\n",
      "Content-Type: " \o content_type \o "\r\n",
      "Content-Length: " \o ToString(content_length) \o "\r\n">>
    \o (IF include_allow_header THEN <<"Allow: GET, HEAD\r\n">> ELSE <<>>)
    \o <<"\r\n">>

\* snprintf(dst, cap, ...) of the fields out: n is build_response_headers'
\* return value, dst the buffer afterwards (at most cap - 1 symbols stored).
store_headers(cap, out) ==
    IF Len(out) >= cap
    THEN [n |-> -1, dst |-> SubSeq(out, 1, cap - 1)]
    ELSE [n |-> Len(out), dst |-> out]

build_response_headers(cap, status_code, content_type, content_length, include_allow_header) ==
    store_headers(cap, header_fields(status_code, content_type, content_length,
                                     include_allow_header))

-----------------------------------------------------------------------------
(* The file system the server runs on: fixed while it runs.  A path is the  *)
(* sequence of its components; the document root is /w.                     *)

N_W == <<"w">>
N_W2 == <<"w","2">>
N_O == <<"o">>
N_A == <<"a">>
N_D == <<"d">>
N_P == <<"p">>
N_S == <<"s">>
N_T == <<"t">>
N_F == <<"f">>

FS_NODES ==
    { [path |-> <<>>, kind |-> "dir", data |-> <<>>, readable |-> TRUE],
      [path |-> <<N_W>>, kind |-> "dir", data |-> <<>>, readable |-> TRUE],
      [path |-> <<N_W, S_INDEX_HTML>>, kind |-> "file",
       data |-> <<"i1","i2","i3">>, readable |-> TRUE],
      [path |-> <<N_W, N_A>>, kind |-> "file",
       data |-> <<>>, readable |-> TRUE],
      [path |-> <<N_W, N_P>>, kind |-> "file",
       data |-> <<"p1">>, readable |-> FALSE],
      [path |-> <<N_W, N_D>>, kind |-> "dir", data |-> <<>>, readable |-> TRUE],
      [path |-> <<N_W, N_D, S_INDEX_HTML>>, kind |-> "file",
       data |-> <<"d1","d2">>, readable |-> TRUE],
      \* /w/s -> /o, a file outside the root
      [path |-> <<N_W, N_S>>, kind |-> "link", data |-> <<N_O>>, readable |-> TRUE],
      \* /w/t -> /w2, a sibling directory whose name starts like the root's
      [path |-> <<N_W, N_T>>, kind |-> "link", data |-> <<N_W2>>, readable |-> TRUE],
      \* /w/f, a FIFO
      [path |-> <<N_W, N_F>>, kind |-> "fifo", data |-> <<>>, readable |-> TRUE],
      [path |-> <<N_O>>, kind |-> "file", data |-> <<"o1">>, readable |-> TRUE],
      [path |-> <<N_W2>>, kind |-> "dir", data |-> <<>>, readable |-> TRUE],
      [path |-> <<N_W2, N_A>>, kind |-> "file",
       data |-> <<"x1">>, readable |-> TRUE] }

fs_exists(comps) == \E n \in FS_NODES : n.path = comps
fs_node(comps) == CHOOSE n \in FS_NODES : n.path = comps

\* cfg->doc_root, canonical: "/w"
DOC_ROOT == <<"/","w">>

\* The components of a path string: the runs between its '/'.
RECURSIVE path_split(_)
path_split_at(s, k) ==
    <<SubSeq(s, 1, k - 1)>> \o path_split(SubSeq(s, k + 1, Len(s)))
path_split(s) ==
    IF \E k \in 1..Len(s) : s[k] = "/"
    THEN path_split_at(s, CHOOSE k \in 1..Len(s) :
                              s[k] = "/" /\ \A r \in 1..(k - 1) : s[r] # "/")
    ELSE <<s>>

\* The path string of a sequence of components.
RECURSIVE path_join(_)
path_join(comps) ==
    IF comps = <<>> THEN <<"/">>
    ELSE IF Len(comps) = 1 THEN <<"/">> \o comps[1]
    ELSE <<"/">> \o comps[1] \o path_join(Tail(comps))

\* realpath(3), from the directory cur over the components left: every
\* component must exist, a symbolic link is followed, and a file followed
\* by anything more is ENOTDIR.
RECURSIVE realpath_walk(_, _)
realpath_node(cur, h, t, n) ==
    IF n.kind = "link" THEN realpath_walk(<<>>, n.data \o t)
    ELSE IF n.kind # "dir" /\ t # <<>> THEN [errno |-> "ENOTDIR", comps |-> <<>>]
    ELSE realpath_walk(Append(cur, h), t)
realpath_step(cur, h, t) ==
    IF h = <<>> \/ h = <<".">> THEN realpath_walk(cur, t)
    ELSE IF h = <<".",".">> THEN realpath_walk(SubSeq(cur, 1, Len(cur) - 1), t)
    ELSE IF ~fs_exists(Append(cur, h)) THEN [errno |-> "ENOENT", comps |-> <<>>]
    ELSE realpath_node(cur, h, t, fs_node(Append(cur, h)))
realpath_walk(cur, left) ==
    IF left = <<>> THEN [errno |-> "OK", comps |-> cur]
    ELSE realpath_step(cur, Head(left), Tail(left))

realpath(path) ==
    IF path = <<>> THEN [errno |-> "ENOENT", comps |-> <<>>]
    ELSE realpath_walk(<<>>, path_split(path))

-----------------------------------------------------------------------------
(* path.c: the path resolver *)

contains_traversal(p) ==
    \/ \E k \in 1..Len(p) : p[k] = "\\"
    \/ p = <<"/",".",".">>
    \/ has_prefix(p, <<"/",".",".","/">>)
    \/ strstr_found(p, <<"/",".",".","/">>)
    \/ (Len(p) >= 3 /\ has_suffix(p, <<"/",".",".">>))
    \/ strstr_found(p, <<"%","2","e","%","2","e">>)
    \/ strstr_found(p, <<"%","2","E","%","2","E">>)
    \/ strstr_found(p, <<"%","2","e",".">>)
    \/ strstr_found(p, <<".","%","2","e">>)
    \/ strstr_found(p, <<"%","2","E",".">>)

\* A containment check that compares the text only.
starts_with_doc_root_textual(full, doc_root) == has_prefix(full, doc_root)

starts_with_doc_root(full, doc_root) ==
    IF ~has_prefix(full, doc_root) THEN FALSE
    ELSE Len(full) = Len(doc_root) \/ full[Len(doc_root) + 1] = "/"

\* The copy loop: url_target up to its first '?' or '#', at most PATH_MAX - 1.
strip_query(url_target) ==
    IF \E k \in 1..Len(url_target) : url_target[k] \in {"?", "#"}
    THEN SubSeq(url_target, 1,
                Min(PATH_MAX - 1,
                    (CHOOSE k \in 1..Len(url_target) :
                        /\ url_target[k] \in {"?", "#"}
                        /\ \A r \in 1..(k - 1) : url_target[r] \notin {"?", "#"})
                    - 1))
    ELSE SubSeq(url_target, 1, Min(PATH_MAX - 1, Len(url_target)))

\* A resolver without default-document handling.
normalize_target_plain(target) == target

\* Default document handling.
normalize_target(target) ==
    IF target = <<"/">> THEN <<"/">> \o S_INDEX_HTML
    ELSE IF target[Len(target)] = "/" THEN target \o S_INDEX_HTML
    ELSE target

ResolveFail(code) == [rc |-> code, path |-> <<>>]

\* resolve_path after realpath: the containment check, stat, the copy out.
resolve_canonical(doc_root, comps, canonical) ==
    IF ~starts_with_doc_root(canonical, doc_root) THEN ResolveFail(403)
    ELSE IF fs_node(comps).kind # "file" THEN ResolveFail(403)
    ELSE IF Len(canonical) >= PATH_MAX THEN ResolveFail(500)
    ELSE [rc |-> 0, path |-> canonical]

\* resolve_path from the realpath call on: rp is its outcome.
resolve_realpath(doc_root, rp) ==
    IF rp.errno \in {"ENOENT", "ENOTDIR"} THEN ResolveFail(404)
    ELSE IF rp.errno = "EACCES" THEN ResolveFail(403)
    ELSE IF rp.errno # "OK" THEN ResolveFail(500)
    ELSE resolve_canonical(doc_root, rp.comps, path_join(rp.comps))

\* resolve_path from the candidate path on.
resolve_candidate(doc_root, candidate) ==
    IF Len(candidate) >= PATH_MAX THEN ResolveFail(400)
    ELSE resolve_realpath(doc_root, realpath(candidate))

\* resolve_path from the stripped target on.
resolve_target(doc_root, target) ==
    IF target = <<>> THEN ResolveFail(400)
    ELSE IF contains_traversal(target) THEN ResolveFail(403)
    ELSE IF target # <<"/">> /\ target[Len(target)] = "/"
            /\ Len(target) + Len(S_INDEX_HTML) + 1 > PATH_MAX
    THEN ResolveFail(400)
    ELSE resolve_candidate(doc_root, doc_root \o normalize_target(target))

\* resolve_path(doc_root, url_target, out_path, PATH_MAX): rc is the return
\* value and path is out_path (<<>>: not written).
resolve_path(doc_root, url_target) ==
    IF url_target = <<>> \/ url_target[1] # "/" THEN ResolveFail(400)
    ELSE resolve_target(doc_root, strip_query(url_target))

-----------------------------------------------------------------------------
(* server.c: one client slot *)

Slots == 1..MAX_CLIENTS
FileFds == 1..MAX_CLIENTS
LISTEN_FD == 0

\* ofiles[fd]: an open regular file (its path and read offset), or closed.
ClosedFile == [open |-> FALSE, path |-> <<>>, pos |-> 0]

\* A reset that stops at the memset: both handles are left 0.
reset_client_zeroed ==
    [active |-> FALSE, fd |-> 0, mode |-> "MODE_READING",
     req_buf |-> <<>>, req_len |-> 0,
     hdr_buf |-> <<>>, hdr_len |-> 0, hdr_sent |-> 0,
     mem_body |-> <<>>, mem_len |-> 0, mem_sent |-> 0,
     is_head |-> FALSE,
     file_fd |-> 0, file_size |-> 0, file_sent |-> 0,
     chunk |-> <<>>, chunk_len |-> 0, chunk_sent |-> 0]

\* reset_client(c): memset to zero, then fd = file_fd = -1.
reset_client ==
    [active |-> FALSE, fd |-> -1, mode |-> "MODE_READING",
     req_buf |-> <<>>, req_len |-> 0,
     hdr_buf |-> <<>>, hdr_len |-> 0, hdr_sent |-> 0,
     mem_body |-> <<>>, mem_len |-> 0, mem_sent |-> 0,
     is_head |-> FALSE,
     file_fd |-> -1, file_size |-> 0, file_sent |-> 0,
     chunk |-> <<>>, chunk_len |-> 0, chunk_sent |-> 0]

\* Return 1 if the request buffer contains "\r\n\r\n".
has_header_end(buf) ==
    /\ Len(buf) >= 4
    /\ \E i \in 4..Len(buf) :
          buf[i - 3] = CR /\ buf[i - 2] = LF /\ buf[i - 1] = CR /\ buf[i] = LF

status_from_errno(errno) ==
    IF errno \in {"ENOENT", "ENOTDIR"} THEN 404
    ELSE IF errno = "EACCES" THEN 403
    ELSE 500

\* The generated page: the fields of the snprintf at server.c:242.
error_page(status) ==
    <<"<html><body><h1>", ToString(status), " ", http_reason_phrase(status),
      "</h1></body></html>\n">>

\* An error response that is staged whatever the header build returned.
make_error_headers_anyway(c1, h) ==
    [rc |-> 0,
     c |-> [c1 EXCEPT !.hdr_buf = h.dst, !.hdr_len = Len(h.dst),
                      !.hdr_sent = 0, !.mode = "MODE_WRITING"]]

\* make_error_response from the build_response_headers call on.
make_error_headers(c1, h) ==
    IF h.n < 0 THEN [rc |-> -1, c |-> [c1 EXCEPT !.hdr_buf = h.dst]]
    ELSE [rc |-> 0,
          c |-> [c1 EXCEPT !.hdr_buf = h.dst, !.hdr_len = h.n,
                           !.hdr_sent = 0, !.mode = "MODE_WRITING"]]

\* make_error_response from the snprintf of the page on.
make_error_body(c, status, is_head, include_allow, page) ==
    make_error_headers(
        [c EXCEPT !.is_head = is_head, !.file_fd = -1, !.file_size = 0,
                  !.file_sent = 0, !.chunk_len = 0, !.chunk_sent = 0,
                  !.mem_body = SubSeq(page, 1, Min(Len(page), MAX_ERROR_BODY - 1)),
                  !.mem_len = Len(page), !.mem_sent = 0],
        build_response_headers(MAX_RESP_HEADER, status,
                               "text/html; charset=utf-8", Len(page),
                               include_allow))

\* make_error_response(c, status, is_head, include_allow): rc and *c after.
make_error_response(c, status, is_head, include_allow) ==
    make_error_body(c, status, is_head, include_allow, error_page(status))

\* The lowest descriptor not in use.
lowest_free_fd(of) ==
    CHOOSE f \in FileFds : ~of[f].open /\ \A g \in FileFds : ~of[g].open => f <= g

\* open(fs_path, O_RDONLY): the lowest free descriptor, or the errno.
open_file(of, comps) ==
    IF ~fs_node(comps).readable THEN [fd |-> -1, errno |-> "EACCES", of |-> of]
    ELSE IF \A fd \in FileFds : of[fd].open
    THEN [fd |-> -1, errno |-> "EMFILE", of |-> of]
    ELSE [fd |-> lowest_free_fd(of), errno |-> "OK",
          of |-> [of EXCEPT ![lowest_free_fd(of)] =
                               [open |-> TRUE, path |-> comps, pos |-> 0]]]

\* close(fd) of a regular file
close_file(of, fd) == IF fd \in FileFds THEN [of EXCEPT ![fd] = ClosedFile] ELSE of

\* An error response as prepare_response returns it: the open files are
\* as they were.
error_reply(m, of) == [rc |-> m.rc, c |-> m.c, of |-> of]

\* prepare_response from the open call on: op is its outcome.
prepare_open(c1, of, op) ==
    IF op.fd < 0
    THEN error_reply(make_error_response(c1, status_from_errno(op.errno),
                                         c1.is_head, FALSE), of)
    ELSE [rc |-> 0,
          c |-> [c1 EXCEPT !.file_fd = op.fd, !.mode = "MODE_WRITING"],
          of |-> op.of]

\* A 200 that opens the file whatever the method.
prepare_body_opens(c1, of, comps) ==
    prepare_open(c1, of, open_file(of, comps))

\* prepare_response once the 200 header block is staged in c1.
prepare_body(c1, of, comps) ==
    IF c1.is_head
    THEN [rc |-> 0, c |-> [c1 EXCEPT !.mode = "MODE_WRITING"], of |-> of]
    ELSE prepare_open(c1, of, open_file(of, comps))

\* prepare_response from the build_response_headers call on.
prepare_headers(c, of, is_head, comps, st_size, h) ==
    IF h.n < 0
    THEN error_reply(make_error_response([c EXCEPT !.hdr_buf = h.dst], 500,
                                         is_head, FALSE), of)
    ELSE prepare_body(
             [c EXCEPT !.hdr_buf = h.dst, !.hdr_len = h.n, !.hdr_sent = 0,
                       !.mem_len = 0, !.mem_sent = 0, !.is_head = is_head,
                       !.file_fd = -1, !.file_size = st_size, !.file_sent = 0,
                       !.chunk_len = 0, !.chunk_sent = 0],
             of, comps)

\* prepare_response from stat(fs_path) on; the file system does not change,
\* so stat succeeds on a path resolve_path has just accepted.
prepare_stat(c, of, is_head, fs_path, comps) ==
    prepare_headers(c, of, is_head, comps, Len(fs_node(comps).data),
                    build_response_headers(MAX_RESP_HEADER, 200,
                                           guess_mime_type(fs_path),
                                           Len(fs_node(comps).data), FALSE))

\* prepare_response from the resolve_path call on: rp is its outcome.
prepare_resolved(c, of, is_head, rp) ==
    IF rp.rc # 0
    THEN error_reply(make_error_response(
                         c, IF rp.rc \in {400, 403, 404} THEN rp.rc ELSE 500,
                         is_head, FALSE), of)
    ELSE prepare_stat(c, of, is_head, rp.path, realpath(rp.path).comps)

\* prepare_response from the parse_http_request call on: req is its outcome.
prepare_parsed(c, of, req) ==
    IF req.rc = 400 THEN error_reply(make_error_response(c, 400, FALSE, FALSE), of)
    ELSE IF req.rc = 405
    THEN error_reply(make_error_response(c, 405, FALSE, TRUE), of)
    ELSE prepare_resolved(c, of, req.method = "HTTP_METHOD_HEAD",
                          resolve_path(DOC_ROOT, req.target))

\* prepare_response(c, cfg): rc, *c after, and the open files after.
prepare_response(c, of) ==
    prepare_parsed(c, of, parse_http_request(SubSeq(c.req_buf, 1, c.req_len)))

\* read_client_request(c, cfg).  sock: the bytes the socket holds; first_n:
\* what the first recv returns of them (later ones return all there is);
\* at_end: what recv reports once the socket is drained ("EAGAIN", "EOF"
\* for a peer that closed, "ERR" for a hard error).
RECURSIVE read_client_request(_, _, _, _, _)

\* A read loop without the oversize check.
read_received_unbounded(c1, of, rest, at_end) ==
    IF has_header_end(c1.req_buf) THEN prepare_response(c1, of)
    ELSE read_client_request(c1, of, rest, Len(rest), at_end)

\* read_client_request after a recv that returned n > 0 into c1: the
\* oversize check, then the search for the blank line.
read_received(c1, of, rest, at_end) ==
    IF c1.req_len >= MaxHeaderSize
    THEN error_reply(make_error_response(c1, 400, FALSE, FALSE), of)
    ELSE IF has_header_end(c1.req_buf) THEN prepare_response(c1, of)
    ELSE read_client_request(c1, of, rest, Len(rest), at_end)

\* A read phase that answers 400 when the socket runs dry before the
\* request is complete.
read_recv_impatient(c, of, sock, n, at_end) ==
    IF n > 0
    THEN read_received([c EXCEPT !.req_buf = SubSeq(c.req_buf, 1, c.req_len)
                                               \o SubSeq(sock, 1, n),
                                 !.req_len = c.req_len + n],
                       of, SubSeq(sock, n + 1, Len(sock)), at_end)
    ELSE IF MaxHeaderSize - c.req_len = 0 \/ (sock = <<>> /\ at_end = "EOF")
    THEN [rc |-> -1, c |-> c, of |-> of]
    ELSE IF at_end = "EAGAIN"
    THEN error_reply(make_error_response(c, 400, FALSE, FALSE), of)
    ELSE [rc |-> -1, c |-> c, of |-> of]

\* read_client_request from the return of recv on: n is what it returned,
\* 0 standing for every outcome that stores nothing.
read_recv(c, of, sock, n, at_end) ==
    IF n > 0
    THEN read_received([c EXCEPT !.req_buf = SubSeq(c.req_buf, 1, c.req_len)
                                               \o SubSeq(sock, 1, n),
                                 !.req_len = c.req_len + n],
                       of, SubSeq(sock, n + 1, Len(sock)), at_end)
    ELSE IF MaxHeaderSize - c.req_len = 0 \/ (sock = <<>> /\ at_end = "EOF")
    THEN [rc |-> -1, c |-> c, of |-> of]
    ELSE IF at_end = "EAGAIN" THEN [rc |-> 0, c |-> c, of |-> of]
    ELSE [rc |-> -1, c |-> c, of |-> of]

\* A receive whose window is one byte wider than what is left of the
\* budget.
read_client_request_wide(c, of, sock, first_n, at_end) ==
    read_recv(c, of, sock,
              Min(first_n, Min(Len(sock), MaxHeaderSize + 1 - c.req_len)), at_end)

read_client_request(c, of, sock, first_n, at_end) ==
    read_recv(c, of, sock,
              Min(first_n, Min(Len(sock), MaxHeaderSize - c.req_len)), at_end)

\* A send loop that does not advance the sent-offset.
send_some_stuck(buf, len, sent, cap, n) ==
    [r |-> 0, sent |-> sent, out |-> SubSeq(buf, sent + 1, sent + n),
     cap |-> cap - n]

\* send_buffer once it is known that the socket takes n more symbols.
send_some(buf, len, sent, cap, n) ==
    [r |-> IF sent + n = len THEN 1 ELSE 0,
     sent |-> sent + n,
     out |-> SubSeq(buf, sent + 1, sent + n),
     cap |-> cap - n]

\* send_buffer(fd, buf, len, sent).  cap: the symbols the socket takes
\* before send reports EAGAIN; err: send fails with a hard error.  r is the
\* return value, sent the counter after, out what went onto the socket.
send_buffer(buf, len, sent, cap, err) ==
    IF sent >= len THEN [r |-> 1, sent |-> sent, out |-> <<>>, cap |-> cap]
    ELSE IF err THEN [r |-> -1, sent |-> sent, out |-> <<>>, cap |-> cap]
    ELSE send_some(buf, len, sent, cap, Min(cap, len - sent))

\* What a call put onto the socket, in front of what its continuation did.
prepend_out(out, more) == [more EXCEPT !.out = out \o @]

\* flush_file(c).  rderr: read fails with an error other than EINTR.
RECURSIVE flush_file(_, _, _, _, _)

\* flush_file after the sends of the current chunk: out is what they sent.
flush_sent(c2, of, cap, err, rderr, out) ==
    IF c2.chunk_sent < c2.chunk_len
    THEN [r |-> 0, c |-> c2, of |-> of, out |-> out]
    ELSE prepend_out(out, flush_file(c2, of, cap, err, rderr))

\* flush_file, the inner loop: the socket takes n symbols of the chunk.
flush_send(c1, of, cap, err, rderr, n) ==
    IF err THEN [r |-> -1, c |-> c1, of |-> of, out |-> <<>>]
    ELSE flush_sent([c1 EXCEPT !.chunk_sent = c1.chunk_sent + n,
                               !.file_sent = c1.file_sent + n],
                    of, cap - n, err, rderr,
                    SubSeq(c1.chunk, c1.chunk_sent + 1, c1.chunk_sent + n))

\* flush_file with a chunk to send.
flush_chunk(c1, of, cap, err, rderr) ==
    flush_send(c1, of, cap, err, rderr, Min(cap, c1.chunk_len - c1.chunk_sent))

\* A file stream that takes end of file for "try again".
flush_read_pending(c, of, cap, err, rderr, pos, data, r) ==
    IF rderr THEN [r |-> -1, c |-> c, of |-> of, out |-> <<>>]
    ELSE IF r = 0 THEN [r |-> 0, c |-> c, of |-> of, out |-> <<>>]
    ELSE flush_chunk([c EXCEPT !.chunk = SubSeq(data, pos + 1, pos + r),
                               !.chunk_len = r, !.chunk_sent = 0],
                     [of EXCEPT ![c.file_fd].pos = pos + r],
                     cap, err, rderr)

\* flush_file from the return of read on: r symbols of data from pos.
flush_read(c, of, cap, err, rderr, pos, data, r) ==
    IF rderr THEN [r |-> -1, c |-> c, of |-> of, out |-> <<>>]
    ELSE IF r = 0 THEN [r |-> 1, c |-> c, of |-> of, out |-> <<>>]
    ELSE flush_chunk([c EXCEPT !.chunk = SubSeq(data, pos + 1, pos + r),
                               !.chunk_len = r, !.chunk_sent = 0],
                     [of EXCEPT ![c.file_fd].pos = pos + r],
                     cap, err, rderr)

\* read(c->file_fd, c->chunk, sizeof(c->chunk)) on the file at offset pos.
flush_load(c, of, cap, err, rderr, pos, data) ==
    flush_read(c, of, cap, err, rderr, pos, data,
               Min(FILE_CHUNK, Len(data) - pos))

\* A stream that reads a new chunk on every call, whatever is left of the
\* current one.
flush_file_reload(c, of, cap, err, rderr) ==
    IF c.file_fd < 0 THEN [r |-> 1, c |-> c, of |-> of, out |-> <<>>]
    ELSE flush_load(c, of, cap, err, rderr, of[c.file_fd].pos,
                    fs_node(of[c.file_fd].path).data)

flush_file(c, of, cap, err, rderr) ==
    IF c.file_fd < 0 THEN [r |-> 1, c |-> c, of |-> of, out |-> <<>>]
    ELSE IF c.chunk_len = 0 \/ c.chunk_sent = c.chunk_len
    THEN flush_load(c, of, cap, err, rderr, of[c.file_fd].pos,
                    fs_node(of[c.file_fd].path).data)
    ELSE flush_chunk(c, of, cap, err, rderr)

\* write_client_response, the in-memory body: m is send_buffer's outcome.
write_mem(c1, of, m) ==
    [r |-> m.r, c |-> [c1 EXCEPT !.mem_sent = m.sent], of |-> of, out |-> m.out]

\* write_client_response once the header block is out.
write_body(c1, of, cap, err, rderr) ==
    IF c1.is_head THEN [r |-> 1, c |-> c1, of |-> of, out |-> <<>>]
    ELSE IF c1.mem_len > 0
    THEN write_mem(c1, of,
                   send_buffer(c1.mem_body, c1.mem_len, c1.mem_sent, cap, err))
    ELSE flush_file(c1, of, cap, err, rderr)

\* A write that goes on to the body whenever the header send did not fail.
write_headers_eager(c, of, err, rderr, h) ==
    IF h.r < 0
    THEN [r |-> h.r, c |-> [c EXCEPT !.hdr_sent = h.sent], of |-> of,
          out |-> h.out]
    ELSE prepend_out(h.out, write_body([c EXCEPT !.hdr_sent = h.sent], of,
                                       h.cap, err, rderr))

\* write_client_response from the first send_buffer on: h is its outcome.
write_headers(c, of, err, rderr, h) ==
    IF h.r <= 0
    THEN [r |-> h.r, c |-> [c EXCEPT !.hdr_sent = h.sent], of |-> of,
          out |-> h.out]
    ELSE prepend_out(h.out, write_body([c EXCEPT !.hdr_sent = h.sent], of,
                                       h.cap, err, rderr))

\* write_client_response(c): headers first, then the optional body.
write_client_response(c, of, cap, err, rderr) ==
    write_headers(c, of, err, rderr,
                  send_buffer(c.hdr_buf, c.hdr_len, c.hdr_sent, cap, err))

-----------------------------------------------------------------------------
(* The network.  conn[k] is the TCP connection whose server-side socket is   *)
(* descriptor k: req is what its client sends, nsent how much of it has      *)
(* reached the server's socket (in nseg segments), nread how much the server *)
(* has received; fin: the client has shut its sending side; rst: the         *)
(* connection was reset; recvd: what the client has been sent.  staged and   *)
(* done record, for the properties, the response staged for the connection   *)
(* and whether write_client_response reported it complete.                   *)

Conns == 1..NumConns

NewConn(req) ==
    [st |-> "idle", req |-> req, nsent |-> 0, nseg |-> 0, nread |-> 0,
     fin |-> FALSE, rst |-> FALSE, recvd |-> <<>>,
     staged |-> <<>>, nstaged |-> 0, done |-> FALSE, refused |-> FALSE]

\* The full response a slot in MODE_WRITING holds: header block, then body.
staged_response(c, of) ==
    SubSeq(c.hdr_buf, 1, c.hdr_len)
    \o (IF c.is_head THEN <<>>
        ELSE IF c.mem_len > 0 THEN SubSeq(c.mem_body, 1, c.mem_len)
        ELSE IF c.file_fd >= 0 THEN fs_node(of[c.file_fd].path).data
        ELSE <<>>)

\* close(fd) of a socket: the connection is gone; what the client was sent,
\* and the record of the response, stay.
closed_conn(cn) ==
    [cn EXCEPT !.st = "closed", !.nsent = 0, !.nseg = 0, !.nread = 0,
               !.fin = FALSE, !.rst = FALSE]

ClientConnect(k) ==
    /\ pc = "loop"
    /\ conn[k].st = "idle"
    /\ conn' = [conn EXCEPT ![k].st = "pending"]
    /\ UNCHANGED <<clients, pfds, ofiles, g_stop, pc, listening, exit_status, t_in, t_out>>

\* The sizes a segment takes when left symbols are still to be sent.
SegmentSizes(left) == {1, left} \cup (IF left > 1 THEN {left - 1} ELSE {})

\* One more segment of the request arrives; the last allowed one carries
\* all that is left.
ClientSend(k) ==
    /\ conn[k].st \in {"pending", "open"}
    /\ ~conn[k].fin /\ ~conn[k].rst
    /\ conn[k].nsent < Len(conn[k].req)
    /\ \E n \in SegmentSizes(Len(conn[k].req) - conn[k].nsent) :
          /\ conn[k].nseg + 1 = MaxSegments
                => conn[k].nsent + n = Len(conn[k].req)
          /\ conn' = [conn EXCEPT ![k].nsent = @ + n, ![k].nseg = @ + 1]
    /\ UNCHANGED <<clients, pfds, ofiles, g_stop, pc, listening, exit_status, t_in, t_out>>

\* The client, its request sent, shuts down its sending side.
ClientFin(k) ==
    /\ conn[k].st = "open"
    /\ ~conn[k].fin /\ ~conn[k].rst
    /\ conn[k].nsent = Len(conn[k].req)
    /\ conn' = [conn EXCEPT ![k].fin = TRUE]
    /\ UNCHANGED <<clients, pfds, ofiles, g_stop, pc, listening, exit_status, t_in, t_out>>

\* The connection is reset; unread input is discarded.
ClientReset(k) ==
    /\ conn[k].st = "open"
    /\ ~conn[k].fin /\ ~conn[k].rst
    /\ conn' = [conn EXCEPT ![k].rst = TRUE]
    /\ UNCHANGED <<clients, pfds, ofiles, g_stop, pc, listening, exit_status, t_in, t_out>>

-----------------------------------------------------------------------------
(* server.c: the event loop *)

FreePfd == [fd |-> -1, events |-> "NONE"]

\* A send capacity no response exceeds: writability without back-pressure.
WholeResponse == MAX_RESP_HEADER + MAX_ERROR_BODY

BurstSizes == (1..MaxBurst) \cup {WholeResponse}

\* A close that also clears the slots after slot i.
close_client_slot_sweep(i) ==
    /\ clients' = [j \in 0..MAX_CLIENTS |->
                     IF j >= i THEN reset_client ELSE clients[j]]
    /\ pfds' = [j \in 0..MAX_CLIENTS |-> IF j >= i THEN FreePfd ELSE pfds[j]]

\* close_client_slot(&pfds[i], &clients[i]): the arrays and the open files
\* after; the caller closes the connection on the network side.
close_client_slot(i) ==
    /\ clients' = [clients EXCEPT ![i] = reset_client]
    /\ pfds' = [pfds EXCEPT ![i] = FreePfd]

\* A slot search that does not look at the slots' use.
first_slot_whatever == CHOOSE i \in Slots : \A j \in Slots : i <= j

\* add_client_to_slot: the first free slot, or 0 when there is no room.
first_free_slot ==
    IF \E i \in Slots : ~clients[i].active
    THEN CHOOSE i \in Slots :
             ~clients[i].active /\ \A j \in Slots : ~clients[j].active => i <= j
    ELSE 0

\* A full table that makes room by taking over the last slot.
refuse_client_steal(k) ==
    /\ clients' = [clients EXCEPT ![MAX_CLIENTS] =
                      [reset_client EXCEPT !.active = TRUE, !.fd = k]]
    /\ pfds' = [pfds EXCEPT ![MAX_CLIENTS] = [fd |-> k, events |-> "POLLIN"]]
    /\ conn' = [conn EXCEPT ![k].st = "open",
                            ![clients[MAX_CLIENTS].fd] = closed_conn(@)]

\* accept_new_clients, add_client_to_slot returned -1: close(cfd), and
\* nothing else.
refuse_client(k) ==
    /\ conn' = [conn EXCEPT ![k] = [closed_conn(@) EXCEPT !.refused = TRUE]]
    /\ UNCHANGED <<clients, pfds>>

\* accept_new_clients, for one pending connection: accept, then
\* add_client_to_slot or, with the table full, close.
AcceptClient(k) ==
    /\ pc = "loop"
    /\ conn[k].st = "pending"
    /\ \E i \in {first_free_slot} :
          IF i # 0
          THEN /\ clients' = [clients EXCEPT ![i] =
                                 [reset_client EXCEPT !.active = TRUE, !.fd = k,
                                                      !.mode = "MODE_READING",
                                                      !.file_fd = -1]]
               /\ pfds' = [pfds EXCEPT ![i] = [fd |-> k, events |-> "POLLIN"]]
               /\ conn' = [conn EXCEPT ![k].st = "open"]
          ELSE refuse_client(k)
    /\ UNCHANGED <<ofiles, g_stop, pc, listening, exit_status, t_in, t_out>>

\* run_server, a slot whose revents has POLLERR, POLLHUP or POLLNVAL.
ServePollError(i) ==
    /\ pc = "loop"
    /\ clients[i].active
    /\ conn[clients[i].fd].rst
    /\ close_client_slot(i)
    /\ ofiles' = close_file(ofiles, clients[i].file_fd)
    /\ conn' = [conn EXCEPT ![clients[i].fd] = closed_conn(@)]
    /\ UNCHANGED <<g_stop, pc, listening, exit_status, t_in, t_out>>

\* What recv finds on connection cn: the bytes that arrived and were not
\* read yet, and what it reports once they are drained.
socket_bytes(cn) ==
    IF cn.rst THEN <<>> ELSE SubSeq(cn.req, cn.nread + 1, cn.nsent)
socket_end(cn) == IF cn.rst THEN "ERR" ELSE IF cn.fin THEN "EOF" ELSE "EAGAIN"

\* What the first recv of a read phase may return of the bytes sock.
RecvSizes(sock) == IF sock = <<>> THEN {1} ELSE {1, Len(sock)}

\* A read phase that leaves the registration as it was.
after_read_no_switch(i, k, res) ==
    IF res.rc < 0
    THEN /\ close_client_slot(i)
         /\ ofiles' = close_file(res.of, res.c.file_fd)
         /\ conn' = [conn EXCEPT ![k] = closed_conn(@)]
    ELSE /\ clients' = [clients EXCEPT ![i] = res.c]
         /\ pfds' = pfds
         /\ ofiles' = res.of
         /\ conn' = [conn EXCEPT
               ![k].nread = @ + (res.c.req_len - clients[i].req_len),
               ![k].staged = IF res.c.mode = "MODE_WRITING"
                             THEN staged_response(res.c, res.of) ELSE @,
               ![k].nstaged = IF res.c.mode = "MODE_WRITING" THEN @ + 1 ELSE @]

\* run_server, the read phase of slot i once read_client_request returned
\* res: close the slot on an error, else switch to write-interest when a
\* response is staged.
after_read(i, k, res) ==
    IF res.rc < 0
    THEN /\ close_client_slot(i)
         /\ ofiles' = close_file(res.of, res.c.file_fd)
         /\ conn' = [conn EXCEPT ![k] = closed_conn(@)]
    ELSE /\ clients' = [clients EXCEPT ![i] = res.c]
         /\ pfds' = IF res.c.mode = "MODE_WRITING"
                    THEN [pfds EXCEPT ![i].events = "POLLOUT"]
                    ELSE pfds
         /\ ofiles' = res.of
         /\ conn' = [conn EXCEPT
               ![k].nread = @ + (res.c.req_len - clients[i].req_len),
               ![k].staged = IF res.c.mode = "MODE_WRITING"
                             THEN staged_response(res.c, res.of) ELSE @,
               ![k].nstaged = IF res.c.mode = "MODE_WRITING" THEN @ + 1 ELSE @]

\* run_server, the read phase of a slot whose revents has POLLIN.
ServeReadable(i) ==
    /\ pc = "loop"
    /\ clients[i].active
    /\ clients[i].mode = "MODE_READING"
    /\ pfds[i].events = "POLLIN"
    /\ \E sock \in {socket_bytes(conn[clients[i].fd])} :
          /\ sock # <<>> \/ conn[clients[i].fd].fin \/ conn[clients[i].fd].rst
          /\ \E first_n \in RecvSizes(sock) :
                \E res \in {read_client_request(clients[i], ofiles, sock, first_n,
                                                socket_end(conn[clients[i].fd]))} :
                    after_read(i, clients[i].fd, res)
    /\ UNCHANGED <<g_stop, pc, listening, exit_status, t_in, t_out>>

\* A write phase that keeps the connection after a complete response and
\* goes back to reading on it.
after_write_keepalive(i, k, wr) ==
    IF wr.r < 0
    THEN /\ close_client_slot(i)
         /\ ofiles' = close_file(wr.of, wr.c.file_fd)
         /\ conn' = [conn EXCEPT ![k] =
                        [closed_conn(@) EXCEPT !.recvd = @ \o wr.out]]
    ELSE IF wr.r > 0
    THEN /\ clients' = [clients EXCEPT ![i] =
                           [reset_client EXCEPT !.active = TRUE, !.fd = k]]
         /\ pfds' = [pfds EXCEPT ![i].events = "POLLIN"]
         /\ ofiles' = close_file(wr.of, wr.c.file_fd)
         /\ conn' = [conn EXCEPT ![k].recvd = @ \o wr.out, ![k].done = TRUE]
    ELSE /\ clients' = [clients EXCEPT ![i] = wr.c]
         /\ ofiles' = wr.of
         /\ conn' = [conn EXCEPT ![k].recvd = @ \o wr.out]
         /\ UNCHANGED pfds

\* run_server, the write phase of slot i once write_client_response
\* returned wr: a nonzero result, completion or error, closes the slot.
after_write(i, k, wr) ==
    IF wr.r < 0 \/ wr.r > 0
    THEN /\ close_client_slot(i)
         /\ ofiles' = close_file(wr.of, wr.c.file_fd)
         /\ conn' = [conn EXCEPT ![k] =
                        [closed_conn(@) EXCEPT !.recvd = @ \o wr.out,
                                               !.done = (wr.r > 0)]]
    ELSE /\ clients' = [clients EXCEPT ![i] = wr.c]
         /\ ofiles' = wr.of
         /\ conn' = [conn EXCEPT ![k].recvd = @ \o wr.out]
         /\ UNCHANGED pfds

\* run_server, the write phase of a slot whose revents has POLLOUT.  cap:
\* the symbols the socket takes before EAGAIN; rderr: a file read fails.
ServeWritable(i, cap, rderr) ==
    /\ pc = "loop"
    /\ clients[i].active
    /\ clients[i].mode = "MODE_WRITING"
    /\ pfds[i].events = "POLLOUT"
    /\ \E wr \in {write_client_response(clients[i], ofiles, cap,
                                        conn[clients[i].fd].rst, rderr)} :
          after_write(i, clients[i].fd, wr)
    /\ UNCHANGED <<g_stop, pc, listening, exit_status, t_in, t_out>>

\* on_signal: SIGINT or SIGTERM arrives.
Signal ==
    /\ pc = "loop"
    /\ ~g_stop
    /\ g_stop' = TRUE
    /\ UNCHANGED <<clients, pfds, ofiles, pc, listening, exit_status, conn, t_in, t_out>>

\* A shutdown that spares the slots with a response in flight.
Shutdown_sparing_writers ==
    /\ pc = "loop"
    /\ g_stop
    /\ clients' = [i \in 0..MAX_CLIENTS |->
                     IF i \in Slots /\ clients[i].active
                        /\ clients[i].mode = "MODE_READING"
                     THEN reset_client ELSE clients[i]]
    /\ pfds' = [i \in 0..MAX_CLIENTS |->
                  IF i \in Slots /\ clients[i].active
                     /\ clients[i].mode = "MODE_READING"
                  THEN FreePfd ELSE pfds[i]]
    /\ conn' = [k \in Conns |->
                  IF \E i \in Slots : /\ clients[i].active /\ clients[i].fd = k
                                      /\ clients[i].mode = "MODE_READING"
                  THEN closed_conn(conn[k]) ELSE conn[k]]
    /\ pc' = "stopped"
    /\ listening' = FALSE
    /\ exit_status' = 0
    /\ UNCHANGED <<ofiles, g_stop, t_in, t_out>>

\* run_server, from the loop test that sees g_stop to the return: every
\* active slot and the listening socket are closed.
Shutdown ==
    /\ pc = "loop"
    /\ g_stop
    /\ clients' = [i \in 0..MAX_CLIENTS |->
                     IF i \in Slots /\ clients[i].active
                     THEN reset_client ELSE clients[i]]
    /\ pfds' = [i \in 0..MAX_CLIENTS |->
                  IF i \in Slots /\ clients[i].active THEN FreePfd ELSE pfds[i]]
    /\ ofiles' = [fd \in FileFds |->
                    IF \E i \in Slots : clients[i].active /\ clients[i].file_fd = fd
                    THEN ClosedFile ELSE ofiles[fd]]
    /\ conn' = [k \in Conns |->
                  IF \E i \in Slots : clients[i].active /\ clients[i].fd = k
                  THEN closed_conn(conn[k]) ELSE conn[k]]
    /\ pc' = "stopped"
    /\ listening' = FALSE
    /\ exit_status' = 0
    /\ UNCHANGED <<g_stop, t_in, t_out>>

-----------------------------------------------------------------------------
(* server.c and main.c: start-up *)

Digits == <<"0","1","2","3","4","5","6","7","8","9">>
isdigit(ch) == \E v \in 1..10 : Digits[v] = ch
digit_value(ch) == (CHOOSE v \in 1..10 : Digits[v] = ch) - 1

\* The number a run of decimal digits denotes.
RECURSIVE decimal_value(_)
decimal_value(s) ==
    IF s = <<>> THEN 0
    ELSE decimal_value(SubSeq(s, 1, Len(s) - 1)) * 10 + digit_value(s[Len(s)])

\* strtol: the position after the digits that start at q.
strtol_end(s, q) ==
    CHOOSE e \in q..(Len(s) + 1) :
        /\ (e = Len(s) + 1 \/ ~isdigit(s[e]))
        /\ \A r \in q..(e - 1) : isdigit(s[r])

\* parse_port_number: the range test on the value strtol returned.
port_in_range(v) == IF v < 1 \/ v > PORT_LIMIT THEN -1 ELSE v

\* parse_port_number: strtol converted the digits s[q..e-1], with sign sg;
\* with no digit at all end is the start of the string.
port_converted(s, sg, q, e) ==
    IF e = q THEN -1
    ELSE IF e <= Len(s) THEN -1
    ELSE port_in_range(sg * decimal_value(SubSeq(s, q, e - 1)))

\* strtol(port_str, &end, 10) from the first non-blank p: an optional sign,
\* then the digits.
port_signed(s, p) ==
    IF p <= Len(s) /\ s[p] = "-"
    THEN port_converted(s, -1, p + 1, strtol_end(s, p + 1))
    ELSE IF p <= Len(s) /\ s[p] = "+"
    THEN port_converted(s, 1, p + 1, strtol_end(s, p + 1))
    ELSE port_converted(s, 1, p, strtol_end(s, p))

parse_port_number(port_str) ==
    IF port_str = <<>> THEN -1 ELSE port_signed(port_str, scan_skip(port_str, 1))

\* The runs of s between its dots.
RECURSIVE dot_split(_)
dot_split_at(s, k) ==
    <<SubSeq(s, 1, k - 1)>> \o dot_split(SubSeq(s, k + 1, Len(s)))
dot_split(s) ==
    IF \E k \in 1..Len(s) : s[k] = "."
    THEN dot_split_at(s, CHOOSE k \in 1..Len(s) :
                             s[k] = "." /\ \A r \in 1..(k - 1) : s[r] # ".")
    ELSE <<s>>

\* inet_pton(AF_INET, ...): one part of a dotted quad.
inet_octet(part) ==
    /\ Len(part) \in 1..3
    /\ \A r \in 1..Len(part) : isdigit(part[r])
    /\ Len(part) > 1 => part[1] # "0"
    /\ decimal_value(part) <= 255

inet_quad(parts) == Len(parts) = 4 /\ \A r \in 1..4 : inet_octet(parts[r])

inet_pton4(ip) == inet_quad(dot_split(ip))

\* inet_pton(AF_INET6, ...), on the addresses given on the command line.
IP6_ANY == <<":",":">>
IP6_LOOPBACK == <<":",":","1">>
inet_pton6(ip) == ip \in {IP6_ANY, IP6_LOOPBACK}

is_valid_ip_literal(ip) ==
    IF ip = <<>> THEN FALSE ELSE inet_pton4(ip) \/ inet_pton6(ip)

\* snprintf(dst, width, "%s", src)
copy_arg(src, width) == SubSeq(src, 1, Min(Len(src), width - 1))

\* parse_arguments, the clamp of max_header_size to safe limits.
clamp_header_size(v) ==
    IF v <= 0 \/ v > MAX_HEADER_BYTES THEN DEFAULT_HEADER_SIZE ELSE v

\* parse_arguments returned -1: the record holds the defaults only.
ArgsRejected ==
    [rc |-> -1, bind_ip |-> <<>>, port |-> <<>>, doc_root |-> <<>>,
     max_header_size |-> MaxHeaderSize, backlog |-> BACKLOG]

\* parse_arguments, once realpath(argv[3]) returned rp: stat and S_ISDIR,
\* then the record.
args_root(argv, rp) ==
    IF rp.errno # "OK" THEN ArgsRejected
    ELSE IF fs_node(rp.comps).kind # "dir" THEN ArgsRejected
    ELSE [rc |-> 0,
          bind_ip |-> copy_arg(argv[2], BIND_IP_WIDTH),
          port |-> copy_arg(argv[3], PORT_WIDTH),
          doc_root |-> copy_arg(path_join(rp.comps), PATH_MAX),
          max_header_size |-> clamp_header_size(MaxHeaderSize),
          backlog |-> BACKLOG]

\* parse_arguments(argc, argv, &cfg); argv[0], the program name, is the
\* first element of argv here, so argc is Len(argv).
parse_arguments(argv) ==
    IF Len(argv) # 4 THEN ArgsRejected
    ELSE IF ~is_valid_ip_literal(argv[2]) THEN ArgsRejected
    ELSE IF parse_port_number(argv[3]) < 0 THEN ArgsRejected
    ELSE args_root(argv, realpath(argv[4]))

\* main, after parse_arguments returned res: exit status 1 when it failed
\* or when init_server_socket fails, else run_server reaches its loop.
main_started(res, bind_ok) ==
    IF res.rc # 0 \/ ~bind_ok
    THEN /\ pc' = "stopped" /\ exit_status' = 1
         /\ UNCHANGED <<pfds, listening>>
    ELSE /\ pc' = "loop" /\ exit_status' = -1
         /\ listening' = TRUE
         /\ pfds' = [pfds EXCEPT ![0] = [fd |-> LISTEN_FD, events |-> "POLLIN"]]

\* main(argc, argv) with argv = t_in.
Main(bind_ok) ==
    /\ pc = "main"
    /\ \E res \in {parse_arguments(t_in)} :
          /\ t_out' = res
          /\ main_started(res, bind_ok)
    /\ UNCHANGED <<clients, ofiles, g_stop, conn, t_in>>

-----------------------------------------------------------------------------
(* Direct calls of the resolver *)

\* t_out before the call.
NotCalled == [rc |-> -1, path |-> <<>>]

\* resolve_path(cfg->doc_root, t_in, out, sizeof(out))
ResolveCall ==
    /\ t_out = NotCalled
    /\ t_out' = resolve_path(DOC_ROOT, t_in)
    /\ UNCHANGED <<clients, pfds, ofiles, g_stop, pc, listening, exit_status, conn, t_in>>

-----------------------------------------------------------------------------
(* Direct calls of the response builder *)

\* build_response_headers(dst, cap, status_code, content_type,
\* content_length, include_allow_header) with the arguments t_in; t_out is
\* its return value and dst after the call.
BuildCall ==
    /\ t_out = NotCalled
    /\ t_out' = build_response_headers(t_in.cap, t_in.status, t_in.ctype,
                                       t_in.clen, t_in.allow)
    /\ UNCHANGED <<clients, pfds, ofiles, g_stop, pc, listening, exit_status, conn, t_in>>

-----------------------------------------------------------------------------
(* The requests the clients send *)

\* A header line body of n symbols.
Pad(n) == [j \in 1..n |-> IF j = 1 THEN "h" ELSE IF j = 2 THEN ":" ELSE "x"]

\* METHOD SP TARGET SP VERSION CRLF CRLF
Req(method, target, version) ==
    method \o <<SP>> \o target \o <<SP>> \o version \o CRLF \o CRLF

\* A request line, one header line, and the blank line: total symbols.
ReqOfSize(method, target, version, total) ==
    method \o <<SP>> \o target \o <<SP>> \o version \o CRLF
    \o Pad(total - (Len(method) + Len(target) + Len(version) + 4) - 4)
    \o CRLF \o CRLF

T_INDEX == <<"/">> \o S_INDEX_HTML
T_PARENT == <<"/",".",".","/","o">>
S_PUT == <<"P","U","T">>
S_HTTP20 == <<"H","T","T","P","/","2",".","0">>
S_LONG_METHOD == <<"P","R","O","P","F","I","N","D","P","R","O","P","F","I","N","D">>

GoodRequests ==
    { Req(S_GET, T_INDEX, S_HTTP11),
      Req(S_HEAD, T_INDEX, S_HTTP11),
      Req(S_GET, <<"/">>, S_HTTP10),
      Req(S_GET, <<"/","d","/">>, S_HTTP11),
      Req(<<"g","e","t">>, <<"/","a">>, S_HTTP11),
      Req(S_HEAD, <<"/","d","/">> \o S_INDEX_HTML, S_HTTP10) }

UnreadableRequests ==
    { Req(S_GET, <<"/","p">>, S_HTTP11),
      Req(S_HEAD, <<"/","p">>, S_HTTP11) }

MethodRequests ==
    { Req(S_PUT, T_INDEX, S_HTTP11),
      Req(S_PUT, <<"/","z">>, S_HTTP10),
      Req(S_PUT, <<"/","a">>, S_HTTP20),
      Req(S_PUT, <<"a">>, S_HTTP11),
      Req(S_PUT, T_PARENT, S_HTTP11),
      Req(S_LONG_METHOD, <<"/","a">>, S_HTTP11) }

MalformedRequests ==
    { S_GET \o CRLF \o CRLF,
      S_GET \o <<SP, "/", "a">> \o CRLF \o CRLF,
      CRLF \o CRLF,
      S_GET \o <<SP, "/", "a", SP>> \o S_HTTP11 \o <<SP, "x">> \o CRLF \o CRLF,
      Req(S_GET, <<"/","a">>, S_HTTP20),
      Req(S_HEAD, T_INDEX, <<"H","T","T","P">>),
      Req(S_GET, <<"a">>, S_HTTP11),
      Req(S_GET, <<"/","^A">>, S_HTTP11) }

TraversalRequests ==
    { Req(S_GET, T_PARENT, S_HTTP11),
      Req(S_GET, <<"/",".",".">>, S_HTTP11),
      Req(S_HEAD, <<"/","d","/",".",".","/","a">>, S_HTTP11),
      Req(S_GET, <<"/","d","/",".",".">>, S_HTTP11),
      Req(S_GET, <<"/","%","2","e","%","2","e","/","o">>, S_HTTP11),
      Req(S_GET, <<"/",".","%","2","E","/","o">>, S_HTTP11),
      Req(S_GET, <<"/","s">>, S_HTTP11),
      Req(S_HEAD, <<"/","s">>, S_HTTP11),
      Req(S_GET, <<"/","t","/","a">>, S_HTTP11) }

MissingRequests ==
    { Req(S_GET, <<"/","z">>, S_HTTP11),
      Req(S_GET, <<"/","d">>, S_HTTP11),
      Req(S_GET, <<"/","a","/">>, S_HTTP11) }

\* Complete requests whose blank line ends within the header budget: at
\* its last byte, and one byte before it.
BudgetRequests ==
    { ReqOfSize(S_GET, T_INDEX, S_HTTP11, MaxHeaderSize),
      ReqOfSize(S_GET, T_INDEX, S_HTTP11, MaxHeaderSize - 1),
      ReqOfSize(S_HEAD, <<"/","a">>, S_HTTP10, MaxHeaderSize),
      ReqOfSize(S_PUT, <<"/","a">>, S_HTTP11, MaxHeaderSize),
      ReqOfSize(S_PUT, <<"/","a">>, S_HTTP11, MaxHeaderSize - 1),
      ReqOfSize(S_GET, T_PARENT, S_HTTP11, MaxHeaderSize),
      ReqOfSize(S_GET, T_PARENT, S_HTTP11, MaxHeaderSize - 1),
      ReqOfSize(S_GET, <<"/","s">>, S_HTTP11, MaxHeaderSize) }

\* Requests with no blank line within the header budget: the blank line
\* ends one, two or four bytes after it, or never comes.
OversizeRequests ==
    { ReqOfSize(S_GET, <<"/","a">>, S_HTTP11, MaxHeaderSize + 1),
      ReqOfSize(S_GET, T_INDEX, S_HTTP11, MaxHeaderSize + 2),
      ReqOfSize(S_HEAD, <<"/","a">>, S_HTTP11, MaxHeaderSize + 4),
      S_GET \o <<SP, "/", "a", SP>> \o S_HTTP11 \o CRLF
          \o Pad(MaxHeaderSize - 15),
      S_GET \o <<SP, "/", "a", SP>> \o S_HTTP11 \o CRLF \o Pad(MaxHeaderSize) }

\* Requests that stay incomplete and short of the budget.
IncompleteRequests ==
    { S_GET \o <<SP, "/", "a", SP>> \o S_HTTP11 \o CRLF,
      S_GET \o <<SP, "/">> }

Catalogue ==
    GoodRequests \cup UnreadableRequests \cup MethodRequests
    \cup MalformedRequests \cup TraversalRequests \cup MissingRequests
    \cup BudgetRequests \cup OversizeRequests \cup IncompleteRequests

\* The targets given to direct resolve_path calls: every string of at most
\* MaxTargetLen symbols over TargetAlphabet.
TargetAlphabet == {"/", ".", "d", "a", "?", "s", "t", "f"}
Targets ==
    UNION { [1..n -> TargetAlphabet] : n \in 1..MaxTargetLen }

-----------------------------------------------------------------------------
(* Specifications *)

\* run_server up to the loop: every slot reset, slot 0 the listening socket.
InitServer ==
    /\ clients = [i \in 0..MAX_CLIENTS |-> reset_client]
    /\ pfds = [i \in 0..MAX_CLIENTS |->
                 IF i = 0 THEN [fd |-> LISTEN_FD, events |-> "POLLIN"]
                 ELSE FreePfd]
    /\ ofiles = [fd \in FileFds |-> ClosedFile]
    /\ g_stop = FALSE
    /\ pc = "loop"
    /\ listening = TRUE
    /\ exit_status = -1

Unused == [NewConn(<<>>) EXCEPT !.st = "unused"]

\* One client: connection 1 sends a request of the set R, the other
\* connections are never opened.
InitSolo(R) ==
    /\ InitServer
    /\ \E r \in R : conn = [k \in Conns |-> IF k = 1 THEN NewConn(r) ELSE Unused]
    /\ t_in = <<>>
    /\ t_out = NotCalled

\* As many clients as there are slots, each sending the same GET.
Peers == Conns \cap Slots
InitPeers ==
    /\ InitServer
    /\ conn = [k \in Conns |->
                 IF k \in Peers THEN NewConn(Req(S_GET, T_INDEX, S_HTTP11))
                 ELSE Unused]
    /\ t_in = <<>>
    /\ t_out = NotCalled

\* More clients than slots: as many clients as slots send a GET, the
\* others connect and send nothing.
InitCrowd ==
    /\ InitServer
    /\ conn = [k \in Conns |->
                 IF k \in Peers THEN NewConn(Req(S_GET, T_INDEX, S_HTTP11))
                 ELSE NewConn(<<>>)]
    /\ t_in = <<>>
    /\ t_out = NotCalled

\* The words of a command line: addresses, ports, directories and others.
PROG == <<"h">>
IP4_ANY == <<"0",".","0",".","0",".","0">>
IP4_BAD == <<"2","5","6",".","0",".","0",".","1">>
PORT_8080 == <<"8","0","8","0">>
PORT_ZERO == <<"0">>
PORT_BIG == <<"6","5","5","3","6">>
PORT_JUNK == <<"8","0","a">>
ROOT_DIR == <<".","/","w">>
ROOT_FILE == <<"/","w","/","a">>
ROOT_NONE == <<"/","z","z">>
ArgWords ==
    { IP4_ANY, IP4_BAD, IP6_LOOPBACK, PORT_8080, PORT_ZERO, PORT_BIG,
      PORT_JUNK, ROOT_DIR, ROOT_FILE, ROOT_NONE }
CommandLines ==
    UNION { { <<PROG>> \o a : a \in [1..n -> ArgWords] } : n \in 1..MaxArgs }

\* The process before main: nothing allocated, nothing listening.
InitMain ==
    /\ clients = [i \in 0..MAX_CLIENTS |-> reset_client]
    /\ pfds = [i \in 0..MAX_CLIENTS |-> FreePfd]
    /\ ofiles = [fd \in FileFds |-> ClosedFile]
    /\ g_stop = FALSE
    /\ pc = "main"
    /\ listening = FALSE
    /\ exit_status = -1
    /\ conn = [k \in Conns |-> Unused]
    /\ t_in \in CommandLines
    /\ t_out = NotCalled

NextMain == \E bind_ok \in BOOLEAN : Main(bind_ok)

\* No client: a direct call of resolve_path on a target of Targets.
InitResolve ==
    /\ InitServer
    /\ conn = [k \in Conns |-> Unused]
    /\ t_in \in Targets
    /\ t_out = NotCalled

\* The arguments of direct build_response_headers calls: destination
\* buffers of at most MaxSmallCap symbols, too small for a header block or
\* just large enough.
HeaderCalls ==
    [cap : 0..MaxSmallCap, status : {200, 400, 403, 404, 405, 500},
     ctype : {"text/html; charset=utf-8", "application/octet-stream"},
     clen : {0, 3}, allow : BOOLEAN]

\* No client: a direct call of build_response_headers.
InitHeaders ==
    /\ InitServer
    /\ conn = [k \in Conns |-> Unused]
    /\ t_in \in HeaderCalls
    /\ t_out = NotCalled

Init == InitSolo(Catalogue)

\* Every step of clients, network and server, faults included.
Next ==
    \/ \E k \in Conns : ClientConnect(k)
    \/ \E k \in Conns : ClientSend(k)
    \/ \E k \in Conns : ClientFin(k)
    \/ \E k \in Conns : ClientReset(k)
    \/ \E k \in Conns : AcceptClient(k)
    \/ \E i \in Slots : ServePollError(i)
    \/ \E i \in Slots : ServeReadable(i)
    \/ \E i \in Slots, cap \in BurstSizes, rderr \in BOOLEAN :
          ServeWritable(i, cap, rderr)
    \/ Signal
    \/ Shutdown

\* The steps of a run without faults: clients that stay connected, no read
\* error, no signal.
NextSteady ==
    \/ \E k \in Conns : ClientConnect(k)
    \/ \E k \in Conns : ClientSend(k)
    \/ \E k \in Conns : AcceptClient(k)
    \/ \E i \in Slots : ServeReadable(i)
    \/ \E i \in Slots, cap \in BurstSizes : ServeWritable(i, cap, FALSE)

\* The same with a destination that takes one symbol per notification.
NextOneByte ==
    \/ \E k \in Conns : ClientConnect(k)
    \/ \E k \in Conns : ClientSend(k)
    \/ \E k \in Conns : AcceptClient(k)
    \/ \E i \in Slots : ServeReadable(i)
    \/ \E i \in Slots : ServeWritable(i, 1, FALSE)

\* A run without network faults in which the signal may arrive.
NextStop ==
    \/ \E k \in Conns : ClientConnect(k)
    \/ \E k \in Conns : ClientSend(k)
    \/ \E k \in Conns : AcceptClient(k)
    \/ \E i \in Slots : ServeReadable(i)
    \/ \E i \in Slots, cap \in BurstSizes : ServeWritable(i, cap, FALSE)
    \/ Signal
    \/ Shutdown

\* Every iteration of the loop ends (each handler does a bounded amount of
\* work and poll waits at most a second, or returns EINTR) and the loop
\* test then reads g_stop: once the flag is set the loop is left.
StopFairness == WF_vars(Shutdown)

\* poll reports a slot registered for write-interest on every iteration of
\* the loop on which its socket is writable, and the loop then runs the
\* slot's write phase: a slot that stays writable is written.
LoopFairness ==
    \A i \in Slots : WF_vars(\E cap \in BurstSizes : ServeWritable(i, cap, FALSE))

OneByteFairness ==
    \A i \in Slots : WF_vars(ServeWritable(i, 1, FALSE))

Spec == Init /\ [][Next]_vars
SpecEdge == InitSolo(BudgetRequests) /\ [][Next]_vars
SpecSyntax == InitSolo(MalformedRequests) /\ [][Next]_vars
SpecOversize == InitSolo(OversizeRequests) /\ [][NextSteady]_vars /\ LoopFairness
SpecOneByte == InitSolo(GoodRequests) /\ [][NextOneByte]_vars /\ OneByteFairness
SpecConc == InitPeers /\ [][NextSteady]_vars
SpecResolve == InitResolve /\ [][ResolveCall]_vars
SpecCrowd == InitCrowd /\ [][Next]_vars
SpecMain == InitMain /\ [][NextMain]_vars
SpecStop == InitPeers /\ [][NextStop]_vars /\ StopFairness
SpecHeaders == InitHeaders /\ [][BuildCall]_vars

-----------------------------------------------------------------------------
(* The vocabulary of the properties: requests and replies as a client sees  *)
(* them.                                                                    *)

\* The whitespace-delimited tokens of s.
RECURSIVE Words(_)
WordLen(s) ==
    CHOOSE n \in 1..Len(s) :
        /\ (n = Len(s) \/ isspace(s[n + 1]))
        /\ \A r \in 1..n : ~isspace(s[r])
WordsFrom(s, n) == <<SubSeq(s, 1, n)>> \o Words(SubSeq(s, n + 1, Len(s)))
Words(s) ==
    IF s = <<>> THEN <<>>
    ELSE IF isspace(s[1]) THEN Words(Tail(s))
    ELSE WordsFrom(s, WordLen(s))

\* The first line of a request: what precedes its first CRLF.
FirstLine(req) ==
    IF strstr_found(req, CRLF)
    THEN SubSeq(req, 1,
                (CHOOSE j \in 1..(Len(req) - 1) :
                    /\ SubSeq(req, j, j + 1) = CRLF
                    /\ \A r \in 1..(j - 1) : SubSeq(req, r, r + 1) # CRLF) - 1)
    ELSE req

RequestTokens(req) == Words(FirstLine(req))

IsGetOrHead(tok) == strcasecmp_eq(tok, S_GET) \/ strcasecmp_eq(tok, S_HEAD)
IsVersion(tok) == tok \in {S_HTTP10, S_HTTP11}

\* The target with the default document name after a final '/'.
DefaultDocument(t) == IF t[Len(t)] = "/" THEN t \o S_INDEX_HTML ELSE t

\* The regular files under the document root, and the one a target names.
RootFiles ==
    {n \in FS_NODES : n.kind = "file" /\ Len(n.path) >= 2 /\ n.path[1] = N_W}
NamesFile(t) ==
    \E n \in RootFiles : path_join(Tail(n.path)) = DefaultDocument(t)
FileNamed(t) ==
    CHOOSE n \in RootFiles : path_join(Tail(n.path)) = DefaultDocument(t)

\* GET or HEAD, a target starting with '/', version HTTP/1.0 or HTTP/1.1,
\* terminated by the blank line.
WellFormed(req, tk) ==
    /\ has_suffix(req, CRLF \o CRLF)
    /\ Len(tk) = 3
    /\ IsGetOrHead(tk[1])
    /\ tk[2][1] = "/"
    /\ IsVersion(tk[3])

\* A parent-directory segment, literal or percent-encoded.
ParentForms ==
    { <<".",".">>,
      <<"%","2","e","%","2","e">>, <<"%","2","E","%","2","E">>,
      <<"%","2","e",".">>, <<".","%","2","e">>,
      <<"%","2","E",".">>, <<".","%","2","E">> }
HasParentSegment(t) ==
    \E j \in 1..Len(path_split(t)) : path_split(t)[j] \in ParentForms

\* The canonical path of the target under the root exists and lies outside.
UnderRoot(comps) == comps # <<>> /\ comps[1] = N_W
EscapesRoot(t) ==
    /\ realpath(DOC_ROOT \o t).errno = "OK"
    /\ ~UnderRoot(realpath(DOC_ROOT \o t).comps)

StatusCodes == {200, 400, 403, 404, 405, 500}
StatusLine(code) ==
    "HTTP/1.1 " \o ToString(code) \o " " \o http_reason_phrase(code) \o "\r\n"

\* The status of a reply, 0 when it has no status line.
ReplyStatus(resp) ==
    IF resp # <<>> /\ \E code \in StatusCodes : resp[1] = StatusLine(code)
    THEN CHOOSE code \in StatusCodes : resp[1] = StatusLine(code)
    ELSE 0

\* The header block ends with the blank line, the first "\r\n" symbol.
HeaderEnd(resp) ==
    IF \E j \in 1..Len(resp) : resp[j] = "\r\n"
    THEN CHOOSE j \in 1..Len(resp) :
             resp[j] = "\r\n" /\ \A r \in 1..(j - 1) : resp[r] # "\r\n"
    ELSE Len(resp)
HasHeaderLine(resp, line) == \E j \in 1..HeaderEnd(resp) : resp[j] = line
ReplyBody(resp) == SubSeq(resp, HeaderEnd(resp) + 1, Len(resp))
ContentLength(n) == "Content-Length: " \o ToString(n) \o "\r\n"

\* Status 200, the file's size as Content-Length, and the file as body, or
\* no body for HEAD.
Reply200(resp, tk) ==
    /\ ReplyStatus(resp) = 200
    /\ HasHeaderLine(resp, ContentLength(Len(FileNamed(tk[2]).data)))
    /\ ReplyBody(resp) = IF strcasecmp_eq(tk[1], S_HEAD) THEN <<>>
                         ELSE FileNamed(tk[2]).data

IsPrefix(a, b) == Len(a) <= Len(b) /\ a = SubSeq(b, 1, Len(a))

\* The slots that serve connection k.
SlotOf(k) == {i \in Slots : clients[i].active /\ clients[i].fd = k}

\* What a slot has sent of its response: header block, then body.
SentCount(c) ==
    c.hdr_sent + (IF c.is_head THEN 0
                  ELSE IF c.mem_len > 0 THEN c.mem_sent
                  ELSE c.file_sent)

Writing(i) == clients[i].active /\ clients[i].mode = "MODE_WRITING"

-----------------------------------------------------------------------------
(* Properties *)

C1_For(cn, tk) ==
    (WellFormed(cn.req, tk) /\ NamesFile(tk[2]))
        => /\ Reply200(cn.staged, tk)
           /\ cn.done => cn.recvd = cn.staged

\* C1: every well-formed GET or HEAD request (target starting with '/',
\* version HTTP/1.0 or HTTP/1.1, terminated by the blank line) for an
\* existing regular file under the root is answered with status 200 and a
\* Content-Length equal to the file's size; the body is the file for GET
\* and empty for HEAD, and that is what a completed reply has delivered.
C1_Serves200 ==
    \A k \in Conns :
        conn[k].nstaged > 0 => C1_For(conn[k], RequestTokens(conn[k].req))

\* A well-formed GET of /index.html of exactly max_header_size bytes has
\* been answered, completely, with status 400.
C1_ExactBudgetRefused ==
    /\ conn[1].req = ReqOfSize(S_GET, T_INDEX, S_HTTP11, MaxHeaderSize)
    /\ conn[1].done
    /\ ReplyStatus(conn[1].recvd) = 400

C2_For(cn, tk) ==
    (Len(tk) >= 2 /\ (HasParentSegment(tk[2]) \/ EscapesRoot(tk[2])))
        => ReplyStatus(cn.staged) \in {403, 404}

\* C2: every request whose target contains a parent-directory segment, or
\* whose canonical path lies outside the root, is answered with status 403
\* or 404 (so never 200), and no file outside the root is ever open.
C2_TraversalRefused ==
    /\ \A k \in Conns :
          conn[k].nstaged > 0 => C2_For(conn[k], RequestTokens(conn[k].req))
    /\ \A fd \in FileFds : ofiles[fd].open => UnderRoot(ofiles[fd].path)

\* A GET of /../o of exactly max_header_size bytes has been answered,
\* completely, with status 400.
C2_ExactBudgetTraversal ==
    /\ conn[1].req = ReqOfSize(S_GET, T_PARENT, S_HTTP11, MaxHeaderSize)
    /\ conn[1].done
    /\ ReplyStatus(conn[1].recvd) = 400

C3_For(cn, tk) ==
    (Len(tk) >= 1 /\ ~IsGetOrHead(tk[1]))
        => /\ ReplyStatus(cn.staged) = 405
           /\ HasHeaderLine(cn.staged, "Allow: GET, HEAD\r\n")

\* C3: every request whose method token is neither GET nor HEAD, compared
\* without regard to case, is answered with status 405 and a header block
\* that has the line "Allow: GET, HEAD".
C3_MethodNotAllowed ==
    \A k \in Conns :
        conn[k].nstaged > 0 => C3_For(conn[k], RequestTokens(conn[k].req))

\* A PUT of exactly max_header_size bytes has been answered, completely,
\* with status 400 and no Allow line.
C3_ExactBudgetPut ==
    /\ conn[1].req = ReqOfSize(S_PUT, <<"/","a">>, S_HTTP11, MaxHeaderSize)
    /\ conn[1].done
    /\ ReplyStatus(conn[1].recvd) = 400
    /\ ~HasHeaderLine(conn[1].recvd, "Allow: GET, HEAD\r\n")

C4_For(cn, tk) ==
    (Len(tk) # 3 \/ ~IsVersion(tk[3])) => ReplyStatus(cn.staged) = 400

\* C4: every request whose first line is not exactly three
\* whitespace-delimited tokens, or whose version token is neither HTTP/1.0
\* nor HTTP/1.1, is answered with status 400.
C4_BadSyntax400 ==
    \A k \in Conns :
        conn[k].nstaged > 0 => C4_For(conn[k], RequestTokens(conn[k].req))

\* The request line "GET /a HTTP/1.1 x", of four tokens, has been answered,
\* completely, with status 200.
C4_FourTokensServed ==
    /\ RequestTokens(conn[1].req) = <<S_GET, <<"/","a">>, S_HTTP11, <<"x">>>>
    /\ conn[1].done
    /\ ReplyStatus(conn[1].recvd) = 200

\* The bytes received on connection k have reached the header budget and
\* hold no blank line.
ReachedBudget(k) ==
    /\ conn[k].st = "open"
    /\ conn[k].nread >= MaxHeaderSize
    /\ ~strstr_found(SubSeq(conn[k].req, 1, conn[k].nread), CRLF \o CRLF)

\* Connection k has been sent a complete 400 reply, is closed, and holds
\* no slot.
Answered400(k) ==
    /\ conn[k].st = "closed"
    /\ conn[k].done
    /\ ReplyStatus(conn[k].recvd) = 400
    /\ conn[k].recvd = conn[k].staged
    /\ SlotOf(k) = {}

C5_Safety ==
    /\ \A i \in Slots :
          (clients[i].active /\ clients[i].mode = "MODE_READING")
              => clients[i].req_len < MaxHeaderSize
    /\ \A k \in Conns :
          ReachedBudget(k)
              => /\ ReplyStatus(conn[k].staged) = 400
                 /\ SlotOf(k) # {}
                 /\ \A i \in SlotOf(k) : clients[i].mode = "MODE_WRITING"
    /\ \A k \in Conns : conn[k].st = "closed" => Answered400(k)

\* C5: a connection whose received bytes reach the header budget without
\* a blank line is answered with status 400 and then closed: no slot rests
\* in Reading with the budget reached, the reply staged is the 400, and
\* with a client that keeps accepting bytes the whole reply is delivered,
\* the connection closed and the slot released.
C5_OversizeAnswered ==
    /\ [](C5_Safety)
    /\ \A k \in Conns : ReachedBudget(k) ~> Answered400(k)

\* An over-long request without blank line has been answered with 400.
C5_Answered ==
    /\ Len(conn[1].req) >= MaxHeaderSize
    /\ ~strstr_found(SubSeq(conn[1].req, 1, MaxHeaderSize), CRLF \o CRLF)
    /\ Answered400(1)

\* C6: whatever the partial sends and would-block results, what a slot in
\* Writing mode has put on its socket is at every moment the prefix of
\* (header block, then body) that its sent-counters say, so no byte is
\* lost, duplicated or reordered; and when the write transition reports
\* completion the socket has been sent exactly the whole of it.
C6_ExactPrefix ==
    /\ \A k \in Conns :
          /\ IsPrefix(conn[k].recvd, conn[k].staged)
          /\ conn[k].done => conn[k].recvd = conn[k].staged
    /\ \A i \in Slots :
          Writing(i)
              => /\ conn[clients[i].fd].staged
                       = staged_response(clients[i], ofiles)
                 /\ conn[clients[i].fd].recvd
                       = SubSeq(conn[clients[i].fd].staged, 1,
                                SentCount(clients[i]))

\* A slot that has sent its header block and a part of the file, and
\* waits for writability to send the rest.
C6_MidBody ==
    \E i \in Slots :
        /\ Writing(i)
        /\ clients[i].hdr_sent = clients[i].hdr_len
        /\ clients[i].file_sent > 0
        /\ clients[i].file_sent < clients[i].file_size

\* Connection k is served by a slot that holds a 200 response.
Holds200(k) ==
    /\ conn[k].st = "open"
    /\ conn[k].nstaged = 1
    /\ ReplyStatus(conn[k].staged) = 200

\* Connection k has been sent the complete 200 reply to its request, is
\* closed, and holds no slot.
Delivered200(k) ==
    /\ conn[k].st = "closed"
    /\ conn[k].done
    /\ Reply200(conn[k].recvd, RequestTokens(conn[k].req))
    /\ conn[k].recvd = conn[k].staged
    /\ SlotOf(k) = {}

\* C7: with a destination that takes one byte per send and writability
\* reported again and again, a slot that holds a 200 response eventually
\* has delivered the complete header block and the complete file body,
\* and is released.
C7_OneByteDelivers ==
    \A k \in Conns : Holds200(k) ~> Delivered200(k)

\* A GET has been answered one byte at a time, body included.
C7_Delivered ==
    /\ Delivered200(1)
    /\ ReplyBody(conn[1].recvd) # <<>>
    /\ Len(conn[1].recvd) > MaxBurst

\* C8: with as many clients as slots, each sending a GET for the same file,
\* under every interleaving of arrivals, reads and partial writes: every
\* accepted client has exactly one slot, no two slots share a socket or a
\* file descriptor, what a client has been sent is at every moment exactly
\* what its own slot's counters say of its own buffers, and a closed
\* connection has been sent its own complete 200 reply.
C8_Independent ==
    /\ \A k \in Peers :
          /\ conn[k].st = "open" => Cardinality(SlotOf(k)) = 1
          /\ IsPrefix(conn[k].recvd, conn[k].staged)
          /\ conn[k].st = "closed"
                => /\ conn[k].done
                   /\ conn[k].recvd = conn[k].staged
                   /\ Reply200(conn[k].recvd, RequestTokens(conn[k].req))
    /\ \A i \in Slots :
          Writing(i)
              => conn[clients[i].fd].recvd
                    = SubSeq(staged_response(clients[i], ofiles), 1,
                             SentCount(clients[i]))
    /\ \A i, j \in Slots :
          (i # j /\ clients[i].active /\ clients[j].active)
              => /\ clients[i].fd # clients[j].fd
                 /\ clients[i].file_fd >= 0
                       => clients[i].file_fd # clients[j].file_fd

\* Two slots are both part-way through sending their responses.
C8_BothMidWrite ==
    \E i, j \in Slots :
        /\ i # j
        /\ Writing(i) /\ Writing(j)
        /\ SentCount(clients[i]) > 0
        /\ SentCount(clients[j]) > 0
        /\ SentCount(clients[i]) # SentCount(clients[j])

\* C9: resolving '/' gives the same result, path or rejection code, as
\* resolving '/index.html', and resolving a target that ends in '/' gives
\* the same result as resolving it with 'index.html' appended.
C9_DefaultDocument ==
    t_out # NotCalled
        => /\ t_in = <<"/">> => t_out = resolve_path(DOC_ROOT, T_INDEX)
           /\ t_in[Len(t_in)] = "/"
                 => t_out = resolve_path(DOC_ROOT, t_in \o S_INDEX_HTML)

\* '/d/' has been resolved, to /w/d/index.html.
C9_Directory ==
    /\ t_in = <<"/","d","/">>
    /\ t_out = [rc |-> 0, path |-> DOC_ROOT \o <<"/","d","/">> \o S_INDEX_HTML]

C10_Inv ==
    /\ \A k \in Conns :
          /\ conn[k].nstaged <= 1
          /\ conn[k].done => (conn[k].st = "closed" /\ SlotOf(k) = {})
    /\ \A i \in Slots :
          Writing(i)
              => SentCount(clients[i])
                    < Len(staged_response(clients[i], ofiles))

C10_Step ==
    \A i \in Slots :
        (clients[i].active /\ clients'[i].active)
            => /\ clients'[i].fd = clients[i].fd
               /\ clients[i].mode = "MODE_WRITING"
                     => clients'[i].mode = "MODE_WRITING"

\* C10: a connection carries at most one response: a slot never leaves
\* Writing for Reading and serves one connection until it is released, no
\* second response is ever staged, and no slot rests in Writing with its
\* response completely sent: completion closes the socket and frees the
\* slot in the same step.
C10_OneResponse == [](C10_Inv) /\ [][C10_Step]_vars

\* A connection has been sent its one response and its slot is free.
C10_Released ==
    /\ conn[1].done
    /\ conn[1].nstaged = 1
    /\ conn[1].st = "closed"
    /\ SlotOf(1) = {}

\* Every slot of the table is in use.
TableFull == \A i \in Slots : clients[i].active

C11_Inv ==
    /\ ~clients[0].active /\ clients[0].fd = -1
    /\ pc = "loop" => pfds[0] = [fd |-> LISTEN_FD, events |-> "POLLIN"]
    /\ Cardinality({i \in DOMAIN clients : clients[i].active}) <= MAX_CLIENTS
    /\ \A k \in Conns :
          conn[k].refused
              => /\ conn[k].st = "closed"
                 /\ conn[k].recvd = <<>>
                 /\ conn[k].nstaged = 0
                 /\ SlotOf(k) = {}

C11_Step ==
    \A k \in Conns :
        (TableFull /\ conn[k].st = "pending" /\ conn'[k].st # "pending")
            => /\ conn'[k].st = "closed"
               /\ conn'[k].refused
               /\ conn'[k].recvd = <<>>
               /\ clients' = clients
               /\ pfds' = pfds
               /\ ofiles' = ofiles
               /\ \A j \in Conns \ {k} : conn'[j] = conn[j]

\* C11: with every client slot in use, a newly accepted socket is closed at
\* once, with no byte sent on it and no slot, registration, open file or
\* other connection altered; the active slots never number more than
\* MAX_CLIENTS, and index 0 holds the listening socket, never a client.
C11_FullTableRefuses == [](C11_Inv) /\ [][C11_Step]_vars

\* A connection was refused while both slots go on serving other clients,
\* one of them part-way through its response.
C11_Refused ==
    \E k \in Conns :
        /\ conn[k].refused
        /\ TableFull
        /\ \E i \in Slots : Writing(i) /\ SentCount(clients[i]) > 0

\* run_server has returned: nothing is left open.
Stopped ==
    /\ pc = "stopped"
    /\ \A i \in DOMAIN clients : clients[i] = reset_client
    /\ \A i \in Slots : pfds[i] = FreePfd
    /\ \A fd \in FileFds : ~ofiles[fd].open
    /\ \A k \in Conns : conn[k].st # "open"
    /\ ~listening
    /\ exit_status = 0

C12_Inv ==
    /\ pc = "stopped" => Stopped
    /\ pc = "loop" => (listening /\ exit_status = -1)

C12_Step ==
    /\ (pc = "loop" /\ pc' = "stopped")
          => /\ g_stop
             /\ \A k \in Conns : /\ conn'[k].recvd = conn[k].recvd
                                 /\ conn'[k].done = conn[k].done
    /\ pc = "stopped" => pc' = "stopped"

\* C12: once the shutdown flag is set the event loop eventually stops;
\* leaving it closes every active slot whatever its mode, without sending
\* another byte of a response in flight, closes the listening socket, and
\* the server returns exit status zero.
C12_ShutdownCloses ==
    /\ [](C12_Inv)
    /\ [][C12_Step]_vars
    /\ (g_stop ~> Stopped)

\* The server has stopped with one connection cut off in the middle of
\* its response and another closed while its request was being read.
C12_CutOff ==
    /\ Stopped
    /\ \E k \in Conns :
          /\ conn[k].st = "closed" /\ ~conn[k].done
          /\ conn[k].recvd # <<>>
          /\ Len(conn[k].recvd) < Len(conn[k].staged)
    /\ \E k \in Conns :
          /\ conn[k].st = "closed" /\ conn[k].nstaged = 0

\* Slot j and all that belongs to it are the same before and after a step.
SlotUntouched(j) ==
    /\ clients'[j] = clients[j]
    /\ pfds'[j] = pfds[j]
    /\ clients[j].active => conn'[clients[j].fd] = conn[clients[j].fd]
    /\ clients[j].file_fd >= 0
          => ofiles'[clients[j].file_fd] = ofiles[clients[j].file_fd]

C13_Step ==
    \A i \in Slots :
        (clients[i].active /\ ~clients'[i].active /\ ~(g_stop /\ pc' = "stopped"))
            => /\ pc' = "loop"
               /\ clients'[i] = reset_client /\ pfds'[i] = FreePfd
               /\ conn'[clients[i].fd].st = "closed"
               /\ \A j \in Slots \ {i} : SlotUntouched(j)

\* C13: when one slot is closed (the peer disconnected, recv or send
\* failed, a file read failed, poll reported an error, or its response
\* was complete) only that slot changes: every other slot keeps its
\* activity flag, socket, mode, buffers, sent-counters, file handle and
\* poll registration, its connection and its open file, and the loop goes
\* on serving.
C13_OnlyThatSlot == [][C13_Step]_vars

\* One client was dropped on an error in the middle of its response; the
\* other slot is still sending its own.
C13_OtherGoesOn ==
    /\ pc = "loop" /\ ~g_stop
    /\ \E k \in Conns :
          /\ conn[k].st = "closed" /\ ~conn[k].done /\ ~conn[k].refused
          /\ conn[k].nstaged = 1
          /\ conn[k].recvd # <<>>
    /\ \E i \in Slots : Writing(i) /\ SentCount(clients[i]) > 0

\* The command line is a port and a document root, as in the README's run
\* command and in the test script: a port in 1..65535 written in digits,
\* and a path that names an existing directory.
PortAndRoot(argv) ==
    /\ Len(argv) = 3
    /\ argv[2] # <<>> /\ \A r \in 1..Len(argv[2]) : isdigit(argv[2][r])
    /\ decimal_value(argv[2]) \in 1..PORT_LIMIT
    /\ realpath(argv[3]).errno = "OK"
    /\ fs_node(realpath(argv[3]).comps).kind = "dir"

\* C14: a command line of exactly two arguments, a valid port and an
\* existing document-root directory, passes argument validation and yields
\* the configuration record with that port and the canonical root, and
\* main does not exit with the usage error: unless the socket cannot be
\* set up, the server is listening.
C14_TwoArgsStart ==
    (pc # "main" /\ PortAndRoot(t_in))
        => /\ t_out.rc = 0
           /\ t_out.port = t_in[2]
           /\ t_out.doc_root = path_join(realpath(t_in[3]).comps)
           /\ (pc = "loop" /\ listening) \/ (pc = "stopped" /\ exit_status = 1)

\* "8080 ./w" was given: parse_arguments returned -1 and main exit status 1
\* with nothing listening.
C14_UsageError ==
    /\ t_in = <<PROG, PORT_8080, ROOT_DIR>>
    /\ pc = "stopped"
    /\ t_out.rc = -1
    /\ exit_status = 1
    /\ ~listening

\* Slot i has not touched its body: nothing of it sent, no chunk read.
BodyUntouched(i) ==
    /\ clients[i].mem_sent = 0
    /\ clients[i].file_sent = 0
    /\ clients[i].chunk_len = 0 /\ clients[i].chunk_sent = 0
    /\ clients[i].file_fd >= 0 => ofiles[clients[i].file_fd].pos = 0
    /\ conn[clients[i].fd].recvd
          = SubSeq(clients[i].hdr_buf, 1, clients[i].hdr_sent)

\* C15: while the header sent-counter of a slot in Writing mode is below
\* the header length, no byte of the body, error page or file, has been
\* sent and no file chunk has been read: what the socket was given is the
\* sent part of the header block and nothing else, however many
\* writability notifications it took.
C15_HeadersFirst ==
    /\ \A i \in Slots :
          (Writing(i) /\ clients[i].hdr_sent < clients[i].hdr_len)
              => BodyUntouched(i)
    /\ \A k \in Conns :
          Len(conn[k].recvd) <= HeaderEnd(conn[k].staged)
              => IsPrefix(conn[k].recvd, conn[k].staged)

\* A GET's slot after two notifications: the header block is part sent,
\* the file is open and unread.
C15_MidHeaders ==
    \E i \in Slots :
        /\ Writing(i)
        /\ clients[i].hdr_sent > MaxBurst
        /\ clients[i].hdr_sent < clients[i].hdr_len
        /\ clients[i].file_fd >= 0
        /\ clients[i].file_size > 0

\* The poll entry that goes with the state of slot i.
Registration(i) ==
    IF ~clients[i].active THEN FreePfd
    ELSE IF clients[i].mode = "MODE_READING"
    THEN [fd |-> clients[i].fd, events |-> "POLLIN"]
    ELSE [fd |-> clients[i].fd, events |-> "POLLOUT"]

\* C16: whenever the loop waits for readiness, an active slot in Reading
\* mode is registered for read-interest only, an active slot in Writing
\* mode for write-interest only, each on its own socket, and a free slot
\* has no registration (descriptor -1): a slot with a staged response
\* never waits for readability.
C16_Registration ==
    /\ \A i \in Slots : pfds[i] = Registration(i)
    /\ \A i \in Slots :
          (clients[i].active /\ conn[clients[i].fd].nstaged > 0)
              => pfds[i].events = "POLLOUT"

\* A slot whose response has just been staged waits for writability; the
\* other slot is free.
C16_Switched ==
    \E i \in Slots :
        /\ Writing(i)
        /\ SentCount(clients[i]) = 0
        /\ pfds[i] = [fd |-> clients[i].fd, events |-> "POLLOUT"]
        /\ \E j \in Slots : ~clients[j].active /\ pfds[j].fd = -1

\* Slot i is free: every field is in its reset state and the slot has no
\* poll registration.
FreeSlot(i) ==
    /\ ~clients[i].active
    /\ clients[i].fd = -1 /\ clients[i].file_fd = -1
    /\ clients[i].mode = "MODE_READING"
    /\ clients[i].req_len = 0 /\ clients[i].req_buf = <<>>
    /\ clients[i].hdr_len = 0 /\ clients[i].hdr_sent = 0
    /\ clients[i].hdr_buf = <<>>
    /\ clients[i].mem_len = 0 /\ clients[i].mem_sent = 0
    /\ clients[i].mem_body = <<>>
    /\ ~clients[i].is_head
    /\ clients[i].file_size = 0 /\ clients[i].file_sent = 0
    /\ clients[i].chunk_len = 0 /\ clients[i].chunk_sent = 0
    /\ clients[i].chunk = <<>>
    /\ pfds[i].fd = -1 /\ pfds[i].events = "NONE"

\* Slot i is in use: its socket is an open connection, its mode is one of
\* the two, and a file handle it holds is an open file.
UsedSlot(i) ==
    /\ clients[i].active
    /\ clients[i].fd \in Conns /\ conn[clients[i].fd].st = "open"
    /\ clients[i].mode \in {"MODE_READING", "MODE_WRITING"}
    /\ clients[i].file_fd >= 0
          => (clients[i].file_fd \in FileFds /\ ofiles[clients[i].file_fd].open)

C17_Inv ==
    /\ \A i \in Slots : FreeSlot(i) \/ UsedSlot(i)
    /\ \A k \in Conns : conn[k].st = "open" => SlotOf(k) # {}
    /\ \A fd \in FileFds :
          ofiles[fd].open
              => \E i \in Slots : clients[i].active /\ clients[i].file_fd = fd

C17_Step ==
    \A i \in Slots :
        (clients[i].active /\ ~clients'[i].active)
            => /\ conn'[clients[i].fd].st = "closed"
               /\ clients[i].file_fd >= 0 => ~ofiles'[clients[i].file_fd].open

\* C17: after any sequence of accept, read, write, close and shutdown
\* steps every slot is either free, with every field reset (inactive, both
\* handles -1, lengths and sent-counters zero, buffers empty, no poll
\* registration), or active with an open socket and mode Reading or
\* Writing; releasing a slot closes its socket and its open file, if any,
\* and leaves it free in that sense; no socket or file stays open without
\* a slot.
C17_FreeOrActive == [](C17_Inv) /\ [][C17_Step]_vars

\* A slot that streamed a whole file has been released: it is free again
\* and its file is closed.
C17_ReleasedAfterFile ==
    /\ pc = "loop"
    /\ conn[1].done /\ ReplyBody(conn[1].recvd) # <<>>
    /\ ReplyStatus(conn[1].recvd) = 200
    /\ \A i \in Slots : FreeSlot(i)
    /\ \A fd \in FileFds : ~ofiles[fd].open

\* The header block of c is complete: a status line first, the blank line
\* last and nowhere before, and hdr_len is its length.
HeaderBuilt(c) ==
    /\ c.hdr_len > 0
    /\ c.hdr_len = Len(c.hdr_buf)
    /\ c.hdr_len < MAX_RESP_HEADER
    /\ ReplyStatus(c.hdr_buf) \in StatusCodes
    /\ HeaderEnd(c.hdr_buf) = c.hdr_len
    /\ c.hdr_buf[c.hdr_len] = "\r\n"
    /\ HasHeaderLine(c.hdr_buf, "Connection: close\r\n")
    /\ c.hdr_sent <= c.hdr_len

\* An error response for slot contents c, with a header buffer of cap
\* symbols: when the header block does not fit, the call fails and the
\* mode is not Writing; when it fits, the block is complete.
BuildOrFail(c, cap, status) ==
    \A allow \in BOOLEAN :
        \A h \in {build_response_headers(cap, status,
                                         "text/html; charset=utf-8", 1, allow)} :
            \A m \in {make_error_headers(c, h)} :
                IF h.n < 0
                THEN m.rc < 0 /\ m.c.mode = c.mode /\ m.c.hdr_len = c.hdr_len
                ELSE m.rc = 0 /\ m.c.mode = "MODE_WRITING" /\ HeaderBuilt(m.c)

\* C18: every slot in Writing mode holds a completely built header block:
\* its header length is positive and the buffer holds a status line and
\* headers that end in the blank line; and a header build that fails (a
\* buffer too small for the block) never puts a slot in Writing mode.
C18_HeaderReady ==
    /\ \A i \in Slots : Writing(i) => HeaderBuilt(clients[i])
    /\ \A i \in Slots :
          (clients[i].active /\ clients[i].mode = "MODE_READING")
              => \A cap \in 0..MaxSmallCap, status \in StatusCodes :
                     BuildOrFail(clients[i], cap, status)

\* A slot waits in Writing mode with the eight-line header block of a 405.
C18_Staged405 ==
    \E i \in Slots :
        /\ Writing(i)
        /\ ReplyStatus(clients[i].hdr_buf) = 405
        /\ clients[i].hdr_len = Len(header_fields(405, "", 0, TRUE))
        /\ clients[i].hdr_buf[clients[i].hdr_len] = "\r\n"

\* Slot i is sending a file: Writing mode, a 200 to a request that bears a
\* body, no generated page.
StreamsFile(i) ==
    /\ Writing(i)
    /\ ~clients[i].is_head
    /\ ReplyStatus(clients[i].hdr_buf) = 200
    /\ clients[i].mem_len = 0

\* C19: in every reachable state a slot whose no-body flag is set has no
\* file handle (a HEAD request never opens the file); a slot has a file
\* handle only while it is in Writing mode with a 200 response to a
\* body-bearing request, and that handle is an open file; a slot with an
\* error response has none; and no file is open but for such a slot.
C19_FileHandle ==
    /\ \A i \in Slots :
          /\ clients[i].is_head => clients[i].file_fd = -1
          /\ clients[i].file_fd >= 0
                => (StreamsFile(i) /\ ofiles[clients[i].file_fd].open)
          /\ (Writing(i) /\ ReplyStatus(clients[i].hdr_buf) # 200)
                => clients[i].file_fd = -1
    /\ \A fd \in FileFds :
          ofiles[fd].open
              => \E i \in Slots : StreamsFile(i) /\ clients[i].file_fd = fd

\* A HEAD of a file with content is being answered 200: the slot has no
\* file handle and no file is open.
C19_HeadNoFile ==
    \E i \in Slots :
        /\ Writing(i)
        /\ clients[i].is_head
        /\ ReplyStatus(clients[i].hdr_buf) = 200
        /\ clients[i].file_size > 0
        /\ clients[i].file_fd = -1
        /\ \A fd \in FileFds : ~ofiles[fd].open

\* The target without its query string or fragment, with the default
\* document appended to a target that ends in '/'.
CleanedTarget(t) ==
    DefaultDocument(
        SubSeq(t, 1, (CHOOSE e \in 1..(Len(t) + 1) :
                         /\ e = Len(t) + 1 \/ t[e] \in {"?", "#"}
                         /\ \A r \in 1..(e - 1) : t[r] \notin {"?", "#"}) - 1))

\* The target is one resolve_path looks up: it starts with '/'.
LooksUp(t) == t[1] = "/"

\* What root + cleaned target canonicalizes to.
Canonicalized(t) == realpath(DOC_ROOT \o CleanedTarget(t))

\* The path names the file system object with components comps, in
\* canonical form: from the top, no empty, '.' or '..' component, no
\* symbolic link on the way.
CanonicalPath(path, comps) ==
    /\ path = path_join(comps)
    /\ \A r \in 1..Len(comps) :
          /\ comps[r] \notin {<<>>, <<".">>, <<".",".">>}
          /\ fs_exists(SubSeq(comps, 1, r))
          /\ fs_node(SubSeq(comps, 1, r)).kind # "link"

\* C20: whenever resolve_path reports success the returned path is the
\* canonical form of root + cleaned target, it is the root or starts with
\* the root followed by '/', and it names an existing regular file; a
\* target that canonicalizes to a place outside the root, a sibling
\* directory whose name starts with the root's name included, is rejected
\* with 403, and so is one that names a directory or a special file.
C20_Contained ==
    (t_out # NotCalled /\ LooksUp(t_in))
        => /\ t_out.rc = 0
                 => /\ Canonicalized(t_in).errno = "OK"
                    /\ CanonicalPath(t_out.path, Canonicalized(t_in).comps)
                    /\ \/ t_out.path = DOC_ROOT
                       \/ has_prefix(t_out.path, DOC_ROOT \o <<"/">>)
                    /\ UnderRoot(Canonicalized(t_in).comps)
                    /\ fs_node(Canonicalized(t_in).comps).kind = "file"
           /\ (Canonicalized(t_in).errno = "OK"
                 /\ ~UnderRoot(Canonicalized(t_in).comps))
                 => t_out = ResolveFail(403)
           /\ (Canonicalized(t_in).errno = "OK"
                 /\ fs_node(Canonicalized(t_in).comps).kind # "file")
                 => t_out = ResolveFail(403)

\* '/t/a', which a symbolic link takes to the file a of the sibling
\* directory /w2, has been rejected with 403.
C20_SiblingRejected ==
    /\ t_in = <<"/","t","/","a">>
    /\ Canonicalized(t_in).comps = <<N_W2, N_A>>
    /\ t_out = ResolveFail(403)

-----------------------------------------------------------------------------
(* The mapping of resolver outcomes *)

\* The part of a request that fits the header budget, and whether it holds
\* the blank line that ends the header block.
WithinBudget(req) == SubSeq(req, 1, Min(Len(req), MaxHeaderSize))
HeaderTerminated(buf) == strstr_found(buf, CRLF \o CRLF)

\* The status a resolver rejection code is answered with.
ResolverStatus(rc) == IF rc \in {400, 403, 404} THEN rc ELSE 500

\* The generated error page as a client sees it: nothing for HEAD.
ErrorPageSent(status, method) ==
    IF method = "HTTP_METHOD_HEAD" THEN <<>> ELSE error_page(status)

\* The reply to a request parsed as rq whose target the resolver rejects
\* with rp.rc.
C21_For(cn, rq, rp) ==
    (rq.rc = 0 /\ rp.rc # 0)
        => /\ ReplyStatus(cn.staged) = ResolverStatus(rp.rc)
           /\ ReplyBody(cn.staged) = ErrorPageSent(ResolverStatus(rp.rc), rq.method)

\* C21: a complete request that parses as GET or HEAD and whose target the
\* path resolver rejects is answered with the resolver's code when that is
\* 400, 403 or 404 and with 500 otherwise; the reply carries the generated
\* error page only and the slot holds no open file; and every status
\* placed in a response is one of 200, 400, 403, 404, 405, 500.
C21_ResolverMapped ==
    /\ \A k \in Conns :
          (conn[k].nstaged > 0 /\ HeaderTerminated(WithinBudget(conn[k].req)))
              => \A rq \in {parse_http_request(WithinBudget(conn[k].req))} :
                     /\ C21_For(conn[k], rq, resolve_path(DOC_ROOT, rq.target))
                     /\ (rq.rc = 0 /\ resolve_path(DOC_ROOT, rq.target).rc # 0)
                            => \A i \in SlotOf(k) : clients[i].file_fd = -1
    /\ \A k \in Conns :
          conn[k].nstaged > 0 => ReplyStatus(conn[k].staged) \in StatusCodes

\* A GET of /s, which the resolver rejects with 403 (a symbolic link that
\* leaves the root), sent in exactly max_header_size bytes, waits in a slot
\* with a 400 staged.
C21_LinkAnswered400 ==
    /\ conn[1].req = ReqOfSize(S_GET, <<"/","s">>, S_HTTP11, MaxHeaderSize)
    /\ parse_http_request(conn[1].req).rc = 0
    /\ resolve_path(DOC_ROOT, <<"/","s">>).rc = 403
    /\ \E i \in SlotOf(1) : Writing(i)
    /\ ReplyStatus(conn[1].staged) = 400

-----------------------------------------------------------------------------
(* Incomplete requests *)

\* The bytes of slot contents c are short of the header budget and hold no
\* blank line yet.
Incomplete(c) ==
    /\ c.req_len < MaxHeaderSize
    /\ ~HeaderTerminated(SubSeq(c.req_buf, 1, c.req_len))

\* Slot i waits for more of its request: Reading mode, read-interest, the
\* bytes received so far in arrival order, and nothing staged or sent.
KeepsReading(i) ==
    /\ clients[i].mode = "MODE_READING"
    /\ pfds[i] = [fd |-> clients[i].fd, events |-> "POLLIN"]
    /\ clients[i].req_len = conn[clients[i].fd].nread
    /\ SubSeq(clients[i].req_buf, 1, clients[i].req_len)
           = SubSeq(conn[clients[i].fd].req, 1, conn[clients[i].fd].nread)
    /\ conn[clients[i].fd].nstaged = 0
    /\ conn[clients[i].fd].staged = <<>>
    /\ conn[clients[i].fd].recvd = <<>>

C22_Inv ==
    /\ \A i \in Slots : Writing(i) => ~Incomplete(clients[i])
    /\ \A i \in Slots :
          (clients[i].active /\ Incomplete(clients[i])) => KeepsReading(i)
    /\ \A k \in Conns :
          conn[k].nstaged > 0
              => \/ HeaderTerminated(WithinBudget(conn[k].req))
                 \/ Len(conn[k].req) >= MaxHeaderSize

\* A step on a slot that holds an incomplete request: what it had received
\* stays in front of what it receives, and the slot is given up only when
\* the peer has disconnected or the server stops.
C22_Step ==
    \A i \in Slots :
        (clients[i].active /\ Incomplete(clients[i]))
            => IF clients'[i].active
               THEN /\ clients'[i].fd = clients[i].fd
                    /\ IsPrefix(SubSeq(clients[i].req_buf, 1, clients[i].req_len),
                                clients'[i].req_buf)
                    /\ clients'[i].req_len >= clients[i].req_len
               ELSE \/ conn[clients[i].fd].fin
                    \/ conn[clients[i].fd].rst
                    \/ pc' = "stopped"

\* C22: an incomplete request is never answered: while the bytes received
\* are below the header budget and hold no blank line, the slot stays in
\* Reading mode registered for read-interest, with the bytes accumulated in
\* arrival order and no response staged; a response is staged only for a
\* request that is complete or has reached the budget; and such a slot is
\* closed only when the peer disconnects or the server stops.
C22_IncompleteKeepsReading == [](C22_Inv) /\ [][C22_Step]_vars

\* A slot has received all of a request line that came in two segments and
\* that no blank line follows, and still waits in Reading mode.
C22_WaitsForMore ==
    \E i \in Slots :
        /\ clients[i].active
        /\ conn[clients[i].fd].req = S_GET \o <<SP, "/", "a", SP>> \o S_HTTP11 \o CRLF
        /\ conn[clients[i].fd].nseg = 2
        /\ clients[i].req_len = Len(conn[clients[i].fd].req)
        /\ Incomplete(clients[i])
        /\ KeepsReading(i)

-----------------------------------------------------------------------------
(* The header budget *)

\* The response prepare_response stages for the bytes buf on a slot that
\* has just been accepted, no file being open.
OnMeritsOf(res) == staged_response(res.c, res.of)
OnMerits(buf) ==
    OnMeritsOf(prepare_response([reset_client EXCEPT !.active = TRUE, !.fd = 1,
                                                     !.req_buf = buf,
                                                     !.req_len = Len(buf)],
                                [fd \in FileFds |-> ClosedFile]))

\* C23: a request whose blank line lies within the first max_header_size
\* bytes, one of exactly max_header_size bytes included, is handed to the
\* parser and answered on its merits; the oversize 400 is staged only when
\* the bytes within the budget hold no complete request.
C23_AnsweredOnMerits ==
    \A k \in Conns :
        (conn[k].nstaged > 0 /\ HeaderTerminated(WithinBudget(conn[k].req)))
            => conn[k].staged = OnMerits(WithinBudget(conn[k].req))

\* A HEAD of /a of exactly max_header_size bytes, blank line included, is
\* all in the slot's buffer, and the slot has a 400 staged where the parser
\* and the resolver would have given 200.
C23_ExactBudget400 ==
    \E i \in SlotOf(1) :
        /\ conn[1].req = ReqOfSize(S_HEAD, <<"/","a">>, S_HTTP10, MaxHeaderSize)
        /\ Writing(i)
        /\ clients[i].req_len = MaxHeaderSize
        /\ HeaderTerminated(clients[i].req_buf)
        /\ ReplyStatus(conn[1].staged) = 400
        /\ ReplyStatus(OnMerits(conn[1].req)) = 200

-----------------------------------------------------------------------------
(* A header block that does not fit *)

\* A slot that has read a request and is about to have its response built.
FreshSlot == [reset_client EXCEPT !.active = TRUE, !.fd = 1]

\* prepare_response, whose 200 header build returned h, for a GET of the
\* file /w/a: the generated 500 is staged, complete, and nothing of the
\* block that did not fit is part of it.
FallsBackTo500(h) ==
    \A res \in {prepare_headers(FreshSlot, [fd \in FileFds |-> ClosedFile],
                                FALSE, <<N_W, N_A>>, 1, h)} :
        /\ res.rc = 0
        /\ res.c.mode = "MODE_WRITING"
        /\ HeaderBuilt(res.c)
        /\ ReplyStatus(staged_response(res.c, res.of)) = 500
        /\ ReplyBody(staged_response(res.c, res.of)) = error_page(500)
        /\ res.c.file_fd = -1

\* make_error_response, whose header build returned h: the call fails, the
\* slot does not enter Writing mode and has no header to send.
NothingToSend(h) ==
    \A m \in {make_error_headers(FreshSlot, h)} :
        /\ m.rc < 0
        /\ m.c.mode = "MODE_READING"
        /\ m.c.hdr_len = 0

\* C24: when the formatted header block does not fit the destination
\* buffer, build_response_headers reports failure and leaves no partial
\* header block in the buffer; a failed 200 header falls back to the
\* generated 500 response, and an error response whose header cannot be
\* built leaves the slot with nothing to send.
C24_FailsCleanly ==
    (t_out # NotCalled
       /\ Len(header_fields(t_in.status, t_in.ctype, t_in.clen, t_in.allow))
              >= t_in.cap)
        => /\ t_out.n = -1
           /\ t_out.dst = <<>>
           /\ FallsBackTo500(t_out)
           /\ NothingToSend(t_out)

\* A 404 header block of seven lines was built into a buffer of five
\* symbols: the call returned -1 and the buffer holds the first four lines.
C24_TruncatedLeft ==
    /\ t_in.cap = 5 /\ t_in.status = 404 /\ ~t_in.allow
    /\ t_out # NotCalled
    /\ t_out.n = -1
    /\ Len(t_out.dst) = 4
    /\ t_out.dst[1] = StatusLine(404)
    /\ IsPrefix(t_out.dst,
                header_fields(t_in.status, t_in.ctype, t_in.clen, t_in.allow))

-----------------------------------------------------------------------------
(* The sent-counters *)

\* No counter of slot contents c is beyond the length it counts towards,
\* and no length beyond its buffer.
CountersInRange(c) ==
    /\ 0 <= c.hdr_sent /\ c.hdr_sent <= c.hdr_len
    /\ c.hdr_len <= Len(c.hdr_buf) /\ c.hdr_len < MAX_RESP_HEADER
    /\ 0 <= c.mem_sent /\ c.mem_sent <= c.mem_len
    /\ c.mem_len <= Len(c.mem_body) /\ c.mem_len < MAX_ERROR_BODY
    /\ 0 <= c.chunk_sent /\ c.chunk_sent <= c.chunk_len
    /\ c.chunk_len = Len(c.chunk) /\ c.chunk_len <= FILE_CHUNK
    /\ 0 <= c.file_sent /\ c.file_sent <= c.file_size

\* The chunk of c is the part of the file just before the read offset pos,
\* and what was sent of the file is all that precedes the unsent rest of
\* the chunk: no part of a chunk was replaced before it was sent.
ChunkInStep(c, pos, data) ==
    /\ pos <= Len(data)
    /\ c.chunk = SubSeq(data, pos - c.chunk_len + 1, pos)
    /\ c.file_sent = pos - (c.chunk_len - c.chunk_sent)

C25_Inv ==
    /\ \A i \in Slots : CountersInRange(clients[i])
    /\ \A i \in Slots :
          (Writing(i) /\ clients[i].file_fd >= 0)
              => /\ ofiles[clients[i].file_fd].open
                 /\ clients[i].chunk_len > 0
                       => clients[i].hdr_sent = clients[i].hdr_len
                 /\ ChunkInStep(clients[i], ofiles[clients[i].file_fd].pos,
                                fs_node(ofiles[clients[i].file_fd].path).data)

\* What connection k is sent in a step.
SentInStep(k) ==
    SubSeq(conn'[k].recvd, Len(conn[k].recvd) + 1, Len(conn'[k].recvd))

\* The unsent rest of the chunk slot contents c hold.
ChunkRest(c) == SubSeq(c.chunk, c.chunk_sent + 1, c.chunk_len)

\* A step of a slot that holds a partly sent chunk: what it sends starts
\* with the rest of that chunk, or is a part of it; nothing read from the
\* file later is sent before it.
C25_Step ==
    \A i \in Slots :
        (/\ Writing(i) /\ clients[i].file_fd >= 0
         /\ clients[i].chunk_sent < clients[i].chunk_len)
            => \/ IsPrefix(ChunkRest(clients[i]), SentInStep(clients[i].fd))
               \/ IsPrefix(SentInStep(clients[i].fd), ChunkRest(clients[i]))

\* C25: in every reachable state and for every slot the header
\* sent-counter is at most the header length, the in-memory body
\* sent-counter at most the body length and the chunk sent-offset at most
\* the chunk length, itself at most the chunk size; and a new chunk is read
\* from the file only when the previous one has been sent completely.
C25_CountersBounded == [](C25_Inv) /\ [][C25_Step]_vars

\* A slot has sent the first chunk of /index.html in two sends, has read
\* the second, shorter chunk and waits for writability to send it.
C25_SecondChunkWaits ==
    \E i \in Slots :
        /\ Writing(i)
        /\ clients[i].file_fd >= 0
        /\ clients[i].file_sent = FILE_CHUNK
        /\ clients[i].chunk_len = clients[i].file_size - FILE_CHUNK
        /\ clients[i].chunk_len > 0
        /\ clients[i].chunk_sent = 0
        /\ clients[i].chunk = <<"i3">>
        /\ Len(conn[clients[i].fd].recvd) = clients[i].hdr_len + FILE_CHUNK

-----------------------------------------------------------------------------
(* The inbound buffer *)

\* req_buf has MAX_HEADER_BYTES + 1 bytes: the NUL that follows req_len
\* received bytes is inside it.
TerminatorInside(c) == c.req_len + 1 <= MAX_HEADER_BYTES + 1

\* The values max_header_size is clamped from: none, negative, the
\* budget of the model, the default, the cap and beyond.
HeaderSizes ==
    {0, -1, 1, MaxHeaderSize, DEFAULT_HEADER_SIZE, MAX_HEADER_BYTES,
     MAX_HEADER_BYTES + 1}

C26_Inv ==
    /\ \A v \in HeaderSizes :
          clamp_header_size(v) \in 1..MAX_HEADER_BYTES
    /\ clamp_header_size(MaxHeaderSize) = MaxHeaderSize
    /\ \A i \in Slots :
          /\ 0 <= clients[i].req_len
          /\ clients[i].req_len <= MaxHeaderSize
          /\ Len(clients[i].req_buf) = clients[i].req_len
          /\ TerminatorInside(clients[i])
          /\ (clients[i].active /\ clients[i].mode = "MODE_READING")
                => MaxHeaderSize - clients[i].req_len > 0

\* A read phase gives a slot up only when the peer has disconnected or the
\* connection failed: no receive returned 0 for want of room.
C26_Step ==
    \A i \in Slots :
        (/\ clients[i].active /\ clients[i].mode = "MODE_READING"
         /\ ~clients'[i].active
         /\ pc' = pc)
            => conn[clients[i].fd].fin \/ conn[clients[i].fd].rst

\* C26: for every slot the inbound consumed-length never exceeds
\* max_header_size, which the clamp keeps within 1..16384, so that the NUL
\* written after the received bytes is inside the buffer; and the length
\* is strictly below max_header_size whenever a receive is issued on a
\* Reading slot, so that no receive has an empty window and a receive that
\* returns 0 means the peer disconnected.
C26_WindowPositive == [](C26_Inv) /\ [][C26_Step]_vars

\* A slot has received max_header_size bytes of a longer request, the
\* rest of it still unread on the socket, and has left Reading mode.
C26_BufferFull ==
    \E i \in Slots :
        /\ Writing(i)
        /\ clients[i].req_len = MaxHeaderSize
        /\ Len(clients[i].req_buf) = MaxHeaderSize
        /\ conn[clients[i].fd].nread = MaxHeaderSize
        /\ conn[clients[i].fd].nsent > MaxHeaderSize

=============================================================================
